---- MODULE Spec2Model ----
(***************************************************************************)
(* Decision sessions of decision-mcp (src/src/tools/decision-maker.ts):     *)
(* the DecisionMakerTool's session map, the session store behind it, and    *)
(* its tool calls start_decision, add_criteria, add_option,                 *)
(* evaluate_option, analyze_decision and make_recommendation.               *)
(*                                                                          *)
(* Numbers.  The code computes with IEEE doubles; the model computes with   *)
(* exact rationals <<n, d>> (d > 0, lowest terms), and a confidence, which  *)
(* holds a square root, is the exact value a - sqrt(b) kept as the pair     *)
(* [a, b].  Rounding error of the doubles is not modelled.                  *)
(***************************************************************************)
EXTENDS Integers, Sequences, FiniteSets, TLC

(* ------------------------------ rationals ------------------------------ *)

Abs(x) == IF x < 0 THEN -x ELSE x

RECURSIVE GCD(_, _)
GCD(a, b) == IF b = 0 THEN a ELSE GCD(b, a % b)

\* the rational n/d (d # 0) in lowest terms with a positive denominator
Rat(n, d) ==
    LET g == GCD(Abs(n), Abs(d))
        s == IF d < 0 THEN -1 ELSE 1
    IN  << (s * n) \div g, (s * d) \div g >>

Int2Rat(n) == << n, 1 >>
Zero == Int2Rat(0)
One == Int2Rat(1)
RAdd(x, y) == Rat(x[1] * y[2] + y[1] * x[2], x[2] * y[2])
RSub(x, y) == Rat(x[1] * y[2] - y[1] * x[2], x[2] * y[2])
RMul(x, y) == Rat(x[1] * y[1], x[2] * y[2])
RDiv(x, y) == Rat(x[1] * y[2], x[2] * y[1])
RLt(x, y) == x[1] * y[2] < y[1] * x[2]
RLe(x, y) == x[1] * y[2] <= y[1] * x[2]
RMax(x, y) == IF RLt(x, y) THEN y ELSE x
RMin(x, y) == IF RLt(y, x) THEN y ELSE x

RECURSIVE RSum(_)
RSum(s) == IF s = << >> THEN Zero ELSE RAdd(Head(s), RSum(Tail(s)))

\* the integer square root of n >= 0, by bisection on lo <= root < hi
RECURSIVE SqrtBetween(_, _, _)
SqrtBetween(n, lo, hi) ==
    IF hi - lo <= 1 THEN lo
    ELSE LET mid == (lo + hi) \div 2
         IN  IF mid * mid <= n THEN SqrtBetween(n, mid, hi)
             ELSE SqrtBetween(n, lo, mid)

ISqrt(n) == SqrtBetween(n, 0, n + 1)
IsSquare(n) == ISqrt(n) * ISqrt(n) = n

(* A value a - sqrt(b), b >= 0 rational.  Canonical: a square b is folded  *)
(* into a, so b is 0 or irrational under the root.                         *)
Surd(a, b) ==
    IF IsSquare(b[1]) /\ IsSquare(b[2])
    THEN [a |-> RSub(a, Rat(ISqrt(b[1]), ISqrt(b[2]))), b |-> Zero]
    ELSE [a |-> a, b |-> b]

\* a - sqrt(b) < m, for a rational m
SurdLtRat(c, m) ==
    LET d == RSub(c.a, m)
    IN  RLt(d, Zero) \/ RLt(RMul(d, d), c.b)

\* m < a - sqrt(b), for a rational m
RatLtSurd(m, c) ==
    LET d == RSub(c.a, m)
    IN  RLt(Zero, d) /\ RLt(c.b, RMul(d, d))

\* a1 - sqrt(b1) <= a2 - sqrt(b2)
SurdLe(c1, c2) ==
    LET d == RSub(c2.a, c1.a)
        dd == RMul(d, d)
        four == Int2Rat(4)
    IN  IF RLe(Zero, d)
        THEN \* sqrt(b2) <= d + sqrt(b1)
             LET k == RSub(RSub(c2.b, dd), c1.b)
             IN  RLe(k, Zero) \/ RLe(RMul(k, k), RMul(four, RMul(dd, c1.b)))
        ELSE \* sqrt(b2) + |d| <= sqrt(b1)
             LET k == RSub(RSub(c1.b, c2.b), dd)
             IN  RLe(Zero, k) /\ RLe(RMul(four, RMul(dd, c2.b)), RMul(k, k))

(* ------------------------------- bounds -------------------------------- *)

\* the criteria list of a session grows to at most MaxCriteria entries
MaxCriteria == 2
\* the options list of a session grows to at most MaxOptions entries
MaxOptions == 2
\* the thoughts list of a thinking session grows to at most MaxStoredThoughts
MaxStoredThoughts == 3
\* the branches Map grows to at most MaxStoredBranches entries
MaxStoredBranches == 1
\* the sessions handed to validate_logic alone hold up to MaxValidatedOptions
\* options
MaxValidatedOptions == 6
\* the clock runs from 0 to MaxClock
MaxClock == 4
\* the rate limiters' configuration, scaled down: a window of WindowMs clock
\* units and MaxRequests requests per window
WindowMs == 2
MaxRequests == 2
\* the cache's configuration, scaled down: maxSize and defaultTtl
MaxSize == 2
DefaultTtl == 3

(* ------------------------------- inputs -------------------------------- *)

SessionIds == {"s1"}
Undefined == << >>
NaN == << 0, 0 >>
BlankStrings == {"", " "}
Contexts == {"", "Choose CRM vendor"}
CriteriaNames == {"Cost"}
OptionNames == {"", "A", "B"}
Descriptions == {"d"}
CriteriaTypes == {"benefit"}
Weights == {Zero, Rat(1, 2), Rat(3, 2)}
ScoreValues == {0, 9}
Reasonings == {"because"}
ScoreInputs == [score : ScoreValues, reasoning : Reasonings]
ScoreLists == UNION {[1..n -> ScoreInputs] : n \in 0..MaxCriteria}
OptionIdInputs == 1..MaxOptions
MinConfidences == {Undefined, Zero, Rat(1, 2), Rat(9, 10)}

\* inputs of the validation runs: scores below, inside and above [0, 10],
\* reasonings empty and detailed, weights whose sums lie around 1
WideScoreValues == {-1, 5, 11}
WideReasonings == {"", "because it is cheap"}
WideScoreInputs == [score : WideScoreValues, reasoning : WideReasonings]
WideScoreLists == UNION {[1..n -> WideScoreInputs] : n \in 0..MaxCriteria}
LogicWeights == {Rat(3, 10), Rat(9, 20), Rat(1, 2), Rat(7, 10)}
\* the criteria of the validation runs: three named Cost and one named Speed
LogicCriteria ==
    {[name |-> IF weight = Rat(7, 10) THEN "Speed" ELSE "Cost", weight |-> weight] :
        weight \in LogicWeights}

\* inputs of the thinking runs: start_thinking with and without maxThoughts,
\* thought ids as addThought hands them out
ThinkingIds == {"t1", "t2"}
Problems == {"", "Why did the deploy fail"}
MaxThoughtsInputs == {0, 2, 1001}
StartThinkingInputs ==
    [problem : Problems] \cup [problem : Problems, maxThoughts : MaxThoughtsInputs]
ThoughtTexts == {"the cache is stale"}
NewThoughtTexts == {"the cache key is wrong"}
ThoughtIdInputs == ThinkingIds \X (1..MaxStoredThoughts)
Conclusions == {"roll back the cache change"}

\* inputs of the concurrent runs: two callers adding criteria to one session
Callers == {"c1", "c2"}
RacingNames == {"Cost", "Speed"}
\* a session id no start_decision handed out
UnknownSessionId == "s0"

\* the rate limiters of the server and the identifiers they are asked about
LimiterNames == {"global", "session"}

\* the keys, values and ttl arguments of the cache runs
CacheKeys == {"a", "b", "c"}
CacheValues == {"v1"}
Ttls == {0, 1}

(* ------------------------------ sequences ------------------------------ *)

\* Array.prototype.filter
Filter(s, P(_)) == SelectSeq(s, P)

\* Array.prototype.find: the first element satisfying P, or Undefined
Find(s, P(_)) ==
    LET found == SelectSeq(s, P)
    IN  IF found = << >> THEN Undefined ELSE Head(found)

\* Array.prototype.join(', ')
RECURSIVE Join(_)
Join(s) ==
    IF s = << >> THEN ""
    ELSE IF Len(s) = 1 THEN s[1]
    ELSE s[1] \o ", " \o Join(Tail(s))

\* String.prototype.trim().length === 0
IsBlank(str) == str \in BlankStrings

(* ------------------------------ validation ----------------------------- *)

validateStartDecision(params) ==
    IF IsBlank(params.context) THEN << "Decision context is required" >> ELSE << >>

validateCriteria(c) ==
    (IF IsBlank(c.name) THEN << "Criteria name is required" >> ELSE << >>)
    \o (IF IsBlank(c.description) THEN << "Criteria description is required" >> ELSE << >>)
    \o (IF RLt(c.weight, Zero) \/ RLt(One, c.weight)
        THEN << "Criteria weight must be between 0 and 1" >> ELSE << >>)

validateOption(o) ==
    (IF IsBlank(o.name) THEN << "Option name is required" >> ELSE << >>)
    \o (IF IsBlank(o.description) THEN << "Option description is required" >> ELSE << >>)

\* stops at the first score out of range
RECURSIVE ScoreErrorsFailFast(_, _)
ScoreErrorsFailFast(scores, index) ==
    IF index > Len(scores) THEN << >>
    ELSE IF scores[index].score < 0 \/ scores[index].score > 10
    THEN << "Score " \o ToString(index) \o " must be between 0 and 10" >>
    ELSE ScoreErrorsFailFast(scores, index + 1)

\* scores.forEach((score, index) => { if (score.score < 0 || score.score > 10) ... })
RECURSIVE ScoreErrors(_, _)
ScoreErrors(scores, index) ==
    IF index > Len(scores) THEN << >>
    ELSE (IF scores[index].score < 0 \/ scores[index].score > 10
          THEN << "Score " \o ToString(index) \o " must be between 0 and 10" >>
          ELSE << >>)
         \o ScoreErrors(scores, index + 1)

\* validateEvaluation without the comparison of the two lengths
validateEvaluationRanges(scores, criteria) == ScoreErrors(scores, 1)

validateEvaluation(scores, criteria) ==
    (IF Len(scores) # Len(criteria)
     THEN << "Expected " \o ToString(Len(criteria)) \o " scores, got "
             \o ToString(Len(scores)) >>
     ELSE << >>)
    \o ScoreErrors(scores, 1)

(* ------------------------------- scoring ------------------------------- *)

\* scores.reduce((sum, score) => sum + score.score, 0) / scores.length
calculateOverallScore(scores) ==
    IF Len(scores) = 0 THEN NaN
    ELSE Rat(RSum([i \in 1..Len(scores) |-> Int2Rat(scores[i].score)])[1], Len(scores))

\* the numerator and the denominator accumulated over index < criteria.length
WeightedSum(scores, criteria) ==
    RSum([i \in 1..Len(scores) |->
            IF i <= Len(criteria)
            THEN RMul(Int2Rat(scores[i].score), criteria[i].weight) ELSE Zero])

TotalWeight(scores, criteria) ==
    RSum([i \in 1..Len(scores) |->
            IF i <= Len(criteria) THEN criteria[i].weight ELSE Zero])

calculateWeightedScoreUnnormalised(scores, criteria) == WeightedSum(scores, criteria)

calculateWeightedScore(scores, criteria) ==
    IF RLt(Zero, TotalWeight(scores, criteria))
    THEN RDiv(WeightedSum(scores, criteria), TotalWeight(scores, criteria))
    ELSE Zero

\* Array.prototype.sort is stable: x goes behind every element the
\* comparator (a, b) => b - a does not order after it
RECURSIVE InsertScoreDesc(_, _)
InsertScoreDesc(x, sorted) ==
    IF sorted = << >> THEN << x >>
    ELSE IF RLt(Head(sorted), x) THEN << x >> \o sorted
    ELSE << Head(sorted) >> \o InsertScoreDesc(x, Tail(sorted))

RECURSIVE SortScoresDesc(_, _)
SortScoresDesc(rest, sorted) ==
    IF rest = << >> THEN sorted
    ELSE SortScoresDesc(Tail(rest), InsertScoreDesc(Head(rest), sorted))

RECURSIVE InsertEvaluationDesc(_, _)
InsertEvaluationDesc(e, sorted) ==
    IF sorted = << >> THEN << e >>
    ELSE IF RLt(Head(sorted).weightedScore, e.weightedScore) THEN << e >> \o sorted
    ELSE << Head(sorted) >> \o InsertEvaluationDesc(e, Tail(sorted))

\* session.evaluations.sort((a, b) => b.weightedScore - a.weightedScore)
RECURSIVE SortEvaluationsDesc(_, _)
SortEvaluationsDesc(rest, sorted) ==
    IF rest = << >> THEN sorted
    ELSE SortEvaluationsDesc(Tail(rest), InsertEvaluationDesc(Head(rest), sorted))

\* the confidence with the variance divided by scores.length - 1
BlendedConfidenceSample(scores) ==
      LET n == Int2Rat(Len(scores))
          mean == RDiv(RSum(scores), n)
          variance ==
              RDiv(RSum([i \in 1..Len(scores) |->
                           RMul(RSub(scores[i], mean), RSub(scores[i], mean))]),
                   Int2Rat(Len(scores) - 1))
          sortedScores == SortScoresDesc(scores, << >>)
          topScore == sortedScores[1]
          secondScore == IF sortedScores[2] = Zero THEN topScore ELSE sortedScores[2]
          separation == RDiv(RSub(topScore, secondScore), Int2Rat(10))
          half == Rat(1, 2)
      IN  IF RLe(Int2Rat(25), variance)
          THEN Surd(RMin(One, RMul(half, separation)), Zero)
          ELSE LET a == RMul(half, RAdd(One, separation))
                   b == RDiv(variance, Int2Rat(100))
                   over == RSub(a, One)
               IN  IF RLt(Zero, over) /\ RLt(b, RMul(over, over))
                   THEN Surd(One, Zero)
                   ELSE Surd(a, b)

\* the confidence of two or more weighted scores, as a - sqrt(b)
BlendedConfidence(scores) ==
      LET n == Int2Rat(Len(scores))
          mean == RDiv(RSum(scores), n)
          variance ==
              RDiv(RSum([i \in 1..Len(scores) |->
                           RMul(RSub(scores[i], mean), RSub(scores[i], mean))]), n)
          sortedScores == SortScoresDesc(scores, << >>)
          topScore == sortedScores[1]
          \* sortedScores[1] || topScore: a second score of 0 is falsy
          secondScore == IF sortedScores[2] = Zero THEN topScore ELSE sortedScores[2]
          separation == RDiv(RSub(topScore, secondScore), Int2Rat(10))
          half == Rat(1, 2)
      IN  IF RLe(Int2Rat(25), variance)
          THEN \* consistency = Math.max(0, 1 - sd / 5) = 0
               Surd(RMin(One, RMul(half, separation)), Zero)
          ELSE \* (1 - sd / 5 + separation) / 2 = (1 + separation) / 2 - sqrt(variance / 100)
               LET a == RMul(half, RAdd(One, separation))
                   b == RDiv(variance, Int2Rat(100))
                   over == RSub(a, One)
               IN  IF RLt(Zero, over) /\ RLt(b, RMul(over, over))
                   THEN Surd(One, Zero)
                   ELSE Surd(a, b)

ConfidenceDefaultZero(scores) ==
    IF Len(scores) < 2 THEN Surd(Zero, Zero) ELSE BlendedConfidence(scores)

\* if (evaluations.length < 2) return 0.5
ConfidenceOfScores(scores) ==
    IF Len(scores) < 2 THEN Surd(Rat(1, 2), Zero) ELSE BlendedConfidence(scores)

calculateConfidence(evaluations) ==
    ConfidenceOfScores([i \in 1..Len(evaluations) |-> evaluations[i].weightedScore])

(* ------------------------------ responses ------------------------------ *)

UndefinedString == "undefined"

\* ToolResponse: { success: true, data } and { success: false, error }
Success(op, data) == [op |-> op, success |-> TRUE, error |-> "", data |-> data]
Failure(op, error, data) == [op |-> op, success |-> FALSE, error |-> error, data |-> data]

\* what one call on a loaded session yields: the session object afterwards,
\* the response, and whether saveSession was reached
Outcome(session, response, save) ==
    [session |-> session, response |-> response, save |-> save]

(* ------------------------- session operations -------------------------- *)

NewSession(sessionId, context) ==
    [id |-> sessionId, context |-> context, criteria |-> << >>, options |-> << >>,
     evaluations |-> << >>, status |-> "active", recommendation |-> UndefinedString]

\* the mutating calls' guard session.status !== 'active', negated
IsActiveAlways(session) == TRUE

IsActive(session) == session.status = "active"

addCriteria(session, params) ==
    LET criteriaData == [name |-> params.name, description |-> params.description,
                         weight |-> params.weight, type |-> params.type]
        errors == validateCriteria(criteriaData)
        criteria == [id |-> Len(session.criteria) + 1] @@ criteriaData
    IN  IF ~IsActive(session)
        THEN Outcome(session,
                     Failure("addCriteria", "Cannot add criteria to inactive session", Undefined),
                     FALSE)
        ELSE IF errors # << >>
        THEN Outcome(session,
                     Failure("addCriteria", "Validation failed: " \o Join(errors), Undefined),
                     FALSE)
        ELSE Outcome([session EXCEPT !.criteria = Append(@, criteria)],
                     Success("addCriteria", criteria), TRUE)

addOption(session, params) ==
    LET optionData == [name |-> params.name, description |-> params.description]
        errors == validateOption(optionData)
        option == [id |-> Len(session.options) + 1] @@ optionData
    IN  IF ~IsActive(session)
        THEN Outcome(session,
                     Failure("addOption", "Cannot add options to inactive session", Undefined),
                     FALSE)
        ELSE IF errors # << >>
        THEN Outcome(session,
                     Failure("addOption", "Validation failed: " \o Join(errors), Undefined),
                     FALSE)
        ELSE Outcome([session EXCEPT !.options = Append(@, option)],
                     Success("addOption", option), TRUE)

RemoveNothing(evaluations, optionId) == evaluations

\* session.evaluations.filter(e => e.optionId !== params.optionId), the kept
\* evaluations' timestamps staying in their order
RemoveEvaluation(evaluations, optionId) ==
    LET NotOf(e) == e.optionId # optionId
        Of(e) == e.optionId = optionId
        removed == Find(evaluations, Of)
        kept == Filter(evaluations, NotOf)
    IN  [i \in 1..Len(kept) |->
            IF removed # Undefined /\ kept[i].timestamp > removed.timestamp
            THEN [kept[i] EXCEPT !.timestamp = @ - 1] ELSE kept[i]]

\* the '' of session.criteria[index]?.id || '': ids are numbers from 1 here
NoCriteriaId == 0

\* session.criteria[index]?.id || ''
CriteriaIdAt(criteria, index) ==
    IF index <= Len(criteria) THEN criteria[index].id ELSE NoCriteriaId

evaluateOption(session, params) ==
    LET IsOption(o) == o.id = params.optionId
        option == Find(session.options, IsOption)
        errors == validateEvaluation(params.scores, session.criteria)
        kept == RemoveEvaluation(session.evaluations, params.optionId)
        evaluation ==
            [optionId |-> params.optionId,
             scores |-> [index \in 1..Len(params.scores) |->
                           [criteriaId |-> CriteriaIdAt(session.criteria, index),
                            score |-> params.scores[index].score,
                            reasoning |-> params.scores[index].reasoning]],
             overallScore |-> calculateOverallScore(params.scores),
             weightedScore |-> calculateWeightedScore(params.scores, session.criteria),
             timestamp |-> Len(kept) + 1]
    IN  IF option = Undefined
        THEN Outcome(session, Failure("evaluateOption", "Option not found", Undefined), FALSE)
        ELSE IF ~IsActive(session)
        THEN Outcome(session,
                     Failure("evaluateOption", "Cannot evaluate options in inactive session",
                             Undefined),
                     FALSE)
        ELSE IF errors # << >>
        THEN Outcome(session,
                     Failure("evaluateOption", "Validation failed: " \o Join(errors), Undefined),
                     FALSE)
        ELSE Outcome([session EXCEPT !.evaluations = Append(kept, evaluation)],
                     Success("evaluateOption", evaluation), TRUE)

RECURSIVE ReduceBottom(_, _)
ReduceBottom(prev, rest) ==
    IF rest = << >> THEN prev
    ELSE ReduceBottom(IF RLt(Head(rest).weightedScore, prev.weightedScore)
                      THEN Head(rest) ELSE prev, Tail(rest))

RECURSIVE ReduceTopLastWins(_, _)
ReduceTopLastWins(prev, rest) ==
    IF rest = << >> THEN prev
    ELSE ReduceTopLastWins(IF RLe(prev.weightedScore, Head(rest).weightedScore)
                           THEN Head(rest) ELSE prev, Tail(rest))

\* session.evaluations.reduce((prev, current) =>
\*     current.weightedScore > prev.weightedScore ? current : prev)
RECURSIVE ReduceTop(_, _)
ReduceTop(prev, rest) ==
    IF rest = << >> THEN prev
    ELSE ReduceTop(IF RLt(prev.weightedScore, Head(rest).weightedScore)
                   THEN Head(rest) ELSE prev, Tail(rest))

TopEvaluation(evaluations) == ReduceTop(Head(evaluations), Tail(evaluations))

\* generateAlternatives sorts session.evaluations in place
generateAlternatives(session) ==
    [session EXCEPT !.evaluations = SortEvaluationsDesc(@, << >>)]

NoEvaluationsEmptyAnalysis(session) ==
    Outcome(session,
            Success("analyzeDecision",
                    [sessionId |-> session.id, topOption |-> UndefinedString,
                     confidence |-> calculateConfidence(session.evaluations),
                     topScore |-> Zero]),
            FALSE)

\* if (session.evaluations.length === 0) return { success: false, ... }
NoEvaluations(session) ==
    Outcome(session,
            Failure("analyzeDecision",
                    "No evaluations found - please evaluate options first", Undefined),
            FALSE)

analyzeDecision(session, params) ==
    LET topEvaluation == TopEvaluation(session.evaluations)
        IsTop(o) == o.id = topEvaluation.optionId
        topOption == Find(session.options, IsTop)
        after == IF params.includeAlternatives THEN generateAlternatives(session)
                 ELSE session
    IN  IF Len(session.evaluations) = 0
        THEN NoEvaluations(session)
        ELSE IF topOption = Undefined
        THEN Outcome(session, Failure("analyzeDecision", "Top option not found", Undefined),
                     FALSE)
        ELSE Outcome(after,
                     Success("analyzeDecision",
                             [sessionId |-> session.id,
                              topOption |-> topOption.name,
                              confidence |-> calculateConfidence(session.evaluations),
                              topScore |-> topEvaluation.weightedScore]),
                     FALSE)

DefaultMinConfidence == Rat(3, 10)

ThresholdIgnoringCaller(minConfidence) == DefaultMinConfidence

\* params.minConfidence || 0.3
Threshold(minConfidence) ==
    IF minConfidence = Undefined \/ minConfidence = Zero THEN DefaultMinConfidence
    ELSE minConfidence

CompleteWithoutStatus(session, recommendedOption) ==
    [session EXCEPT !.recommendation = recommendedOption]

\* session.status = 'completed'; session.recommendation = recommendedOption
Complete(session, recommendedOption) ==
    [session EXCEPT !.status = "completed", !.recommendation = recommendedOption]

makeRecommendation(session, params) ==
    LET analysisResult == analyzeDecision(session, [includeAlternatives |-> TRUE])
        analysed == analysisResult.session
        analysis == analysisResult.response.data
        Named(o) == o.name = analysis.topOption
        topOption == Find(analysed.options, Named)
    IN  IF ~analysisResult.response.success
        THEN Outcome(analysed,
                     Failure("makeRecommendation",
                             "Failed to analyze decision for recommendation", Undefined),
                     FALSE)
        ELSE IF topOption = Undefined
        THEN Outcome(analysed, Failure("makeRecommendation", "Top option not found", Undefined),
                     FALSE)
        ELSE IF SurdLtRat(analysis.confidence, Threshold(params.minConfidence))
        THEN Outcome(analysed,
                     Failure("makeRecommendation",
                             "Confidence level is below minimum threshold",
                             [confidence |-> analysis.confidence,
                              threshold |-> Threshold(params.minConfidence)]),
                     FALSE)
        ELSE Outcome(Complete(analysed, topOption.name),
                     Success("makeRecommendation",
                             [sessionId |-> session.id,
                              recommendedOption |-> topOption.name,
                              confidence |-> analysis.confidence]),
                     FALSE)

(* --------------------------- logic validation -------------------------- *)

\* a template string with the values interpolated into it
Message(template, args) == [template |-> template, args |-> args]

RECURSIVE Flatten(_)
Flatten(lists) == IF lists = << >> THEN << >> ELSE Head(lists) \o Flatten(Tail(lists))

\* Math.abs
RAbs(x) == << Abs(x[1]), x[2] >>

\* Number.prototype.toFixed(2) of a number >= 0: rounded to hundredths
ToFixed2(x) == Rat((200 * x[1] + x[2]) \div (2 * x[2]), 100)

\* String.prototype.toLowerCase
ToLowerCase(str) == IF str = "Cost" THEN "cost" ELSE str

\* String.prototype.trim().length
TrimmedLength(str) ==
    CASE str \in BlankStrings -> 0
      [] str = "because" -> 7
      [] str = "because it is cheap" -> 19

WeightsNotOne == "Criteria weights sum to %s, not 1.0"

WeightsWarningAlways(totalWeight) == << Message(WeightsNotOne, << ToFixed2(totalWeight) >>) >>

\* if (Math.abs(totalWeight - 1.0) > 0.1) warnings.push(...)
WeightsWarning(totalWeight) ==
    IF RLt(Rat(1, 10), RAbs(RSub(totalWeight, One)))
    THEN << Message(WeightsNotOne, << ToFixed2(totalWeight) >>) >>
    ELSE << >>

validateCriteriaConsistency(session) ==
    LET criteria == session.criteria
        totalWeight == RSum([i \in 1..Len(criteria) |-> criteria[i].weight])
        names == [i \in 1..Len(criteria) |-> ToLowerCase(criteria[i].name)]
        \* arr.indexOf(name) !== index
        duplicateNames ==
            Flatten([i \in 1..Len(names) |->
                       IF \E j \in 1..(i - 1) : names[j] = names[i]
                       THEN << names[i] >> ELSE << >>])
    IN  [errors |->
            (IF Len(criteria) < 2
             THEN << Message("At least 2 criteria are required for meaningful comparison",
                             << >>) >>
             ELSE << >>)
            \o (IF Len(duplicateNames) > 0
                THEN << Message("Duplicate criteria names found: %s",
                                << Join(duplicateNames) >>) >>
                ELSE << >>),
         warnings |-> WeightsWarning(totalWeight)]

validateEvaluationPresence(session) ==
    [errors |->
        Flatten([i \in 1..Len(session.options) |->
                   IF \E k \in 1..Len(session.evaluations) :
                          session.evaluations[k].optionId = session.options[i].id
                   THEN << >>
                   ELSE << Message("Option %s has not been evaluated",
                                   << session.options[i].name >>) >>]),
     warnings |-> << >>]

validateEvaluationCompleteness(session) ==
    LET options == session.options
        evaluations == session.evaluations
    IN  [errors |->
            Flatten([i \in 1..Len(options) |->
                       IF \E k \in 1..Len(evaluations) :
                              evaluations[k].optionId = options[i].id
                       THEN << >>
                       ELSE << Message("Option %s has not been evaluated",
                                       << options[i].name >>) >>])
            \o Flatten([k \in 1..Len(evaluations) |->
                          IF Len(evaluations[k].scores) # Len(session.criteria)
                          THEN << Message("Evaluation for option %s has %s scores but %s criteria",
                                          << evaluations[k].optionId,
                                             Len(evaluations[k].scores),
                                             Len(session.criteria) >>) >>
                          ELSE << >>]),
         warnings |-> << >>]

validateScoreConsistency(session) ==
    LET allScores ==
            Flatten([k \in 1..Len(session.evaluations) |-> session.evaluations[k].scores])
        sum == RSum([i \in 1..Len(allScores) |-> Int2Rat(allScores[i].score)])
        \* 0 / 0 is NaN, which is neither < 3 nor > 8
        avgScore == IF Len(allScores) = 0 THEN NaN ELSE RDiv(sum, Int2Rat(Len(allScores)))
    IN  [errors |->
            Flatten([i \in 1..Len(allScores) |->
                       IF allScores[i].score < 0 \/ allScores[i].score > 10
                       THEN << Message("Invalid score %s for criteria %s",
                                       << allScores[i].score, allScores[i].criteriaId >>) >>
                       ELSE << >>]),
         warnings |->
            Flatten([i \in 1..Len(allScores) |->
                       IF TrimmedLength(allScores[i].reasoning) < 10
                       THEN << Message("Score for criteria %s lacks detailed reasoning",
                                       << allScores[i].criteriaId >>) >>
                       ELSE << >>]),
         suggestions |->
            IF avgScore = NaN THEN << >>
            ELSE IF RLt(avgScore, Int2Rat(3))
            THEN << "Consider if all options are viable - average score is very low" >>
            ELSE IF RLt(Int2Rat(8), avgScore)
            THEN << "Consider if criteria are too lenient - average score is very high" >>
            ELSE << >>]

\* the options of the model carry neither pros nor cons
validateOptionCompleteness(session) ==
    LET options == session.options
    IN  [errors |->
            IF Len(options) < 2
            THEN << Message("At least 2 options are required for meaningful decision making",
                            << >>) >>
            ELSE << >>,
         warnings |->
            Flatten([i \in 1..Len(options) |->
                       << Message("Option %s has no pros listed", << options[i].name >>),
                          Message("Option %s has no cons listed", << options[i].name >>) >>])]

calculateLogicConsistencyUnfloored(errors, warnings) ==
    RSub(RSub(One, Rat(Len(errors), 5)), Rat(Len(warnings), 20))

\* Math.max(0, 1 - errors.length * 0.2 - warnings.length * 0.05)
calculateLogicConsistency(errors, warnings) ==
    RMax(Zero, RSub(RSub(One, Rat(Len(errors), 5)), Rat(Len(warnings), 20)))

validateLogic(session) ==
    LET criteria == validateCriteriaConsistency(session)
        completeness == validateEvaluationCompleteness(session)
        scores == validateScoreConsistency(session)
        options == validateOptionCompleteness(session)
        errors == criteria.errors \o completeness.errors \o scores.errors \o options.errors
        warnings == criteria.warnings \o completeness.warnings \o scores.warnings
                    \o options.warnings
    IN  Success("validateLogic",
                [isValid |-> Len(errors) = 0,
                 errors |-> errors,
                 warnings |-> warnings,
                 suggestions |-> scores.suggestions,
                 consistency |-> calculateLogicConsistency(errors, warnings)])

(* ---------------------------- state machine ---------------------------- *)

VARIABLES
    sessions,        \* DecisionMakerTool.sessions: the in-memory Map, id -> session
    db,              \* the session store's decision records, id -> saved session
    last,            \* the response of the latest tool call
    firstEvaluated   \* history: per session, the option ids in the order in
                     \* which they first received an evaluation

VARIABLES
    thinkingSessions,  \* SequentialThinkingTool.sessions: the in-memory Map
    branches,          \* SequentialThinkingTool.branches: the in-memory Map
    thinkingDb,        \* the session store's thinking records, id -> record
    maxThoughts,       \* history: per thinking session, params.maxThoughts || 50
                       \* as start_thinking reported it
    concluded          \* history: the thinking sessions whose conclude_thinking
                       \* succeeded

VARIABLES
    calls              \* per caller, the addCriteria call it has in progress: where
                       \* it stands, its params, the row its read returned, its
                       \* response

VARIABLES
    limiters,          \* per rate limiter, RateLimiter.store: key -> entry
    unswept,           \* history: the stores as they would be had cleanup never run
    granted,           \* history: per rate limiter and key, the resetTime of the
                       \* window that last allowed a call and the number of
                       \* calls isAllowed has allowed with that resetTime
    now                \* Date.now()

VARIABLES
    cache,             \* CacheService.cache: the entries in insertion order
    unsweptCache       \* history: the cache as it would be had cleanup never run

VARIABLES
    analyzerSessions   \* DecisionAnalyzerTool.sessions: id -> session set by setSession

VARIABLES
    collaborations,    \* CollaborationService.sessions: session id -> collaboration
    locks,             \* CollaborationService.locks: lock key -> lock
    events             \* CollaborationService.events: the log logEvent keeps

limiterVars == << limiters, unswept, granted, now >>
cacheVars == << cache, unsweptCache >>
analyzerVars == << analyzerSessions >>
collabVars == << collaborations, locks, events >>
serviceVars == << calls >>
decisionVars == << sessions, db, firstEvaluated, serviceVars >>
thinkingVars == << thinkingSessions, branches, thinkingDb, maxThoughts, concluded >>
vars == << sessions, db, last, firstEvaluated,
           thinkingSessions, branches, thinkingDb, maxThoughts, concluded, serviceVars,
           limiterVars, cacheVars, analyzerVars, collabVars >>

\* a caller with no call in progress
Idle == [pc |-> "idle"]

PutEverywhere(map, key, value) == [k \in DOMAIN map \cup {key} |-> value]

\* Map.prototype.set
Put(map, key, value) ==
    [k \in DOMAIN map \cup {key} |-> IF k = key THEN value ELSE map[k]]

\* JSON.stringify(session): strings, finite numbers and arrays are written as
\* they are, an overallScore of NaN is written as null; a Date is written as
\* the ISO string of the same instant
Null == << "null" >>
JSONStringify(session) ==
    [session EXCEPT !.evaluations =
        [i \in 1..Len(@) |->
            [@[i] EXCEPT !.overallScore = IF @ = NaN THEN Null ELSE @]]]

\* JSON.parse(session.data): what was written, null staying null
JSONParse(data) == data

saveSession(session) == JSONStringify(session)
loadSession(sessionId) ==
    IF sessionId \in DOMAIN db THEN JSONParse(db[sessionId]) ELSE Undefined

\* this.sessions.get(id), else loadSession(id)
Lookup(sessionId) ==
    IF sessionId \in DOMAIN sessions THEN sessions[sessionId] ELSE loadSession(sessionId)

NotFound(op) ==
    /\ last' = Failure(op, "Decision session not found", Undefined)
    /\ UNCHANGED << sessions, db, firstEvaluated >>
    /\ UNCHANGED thinkingVars
    /\ UNCHANGED serviceVars
    /\ UNCHANGED << limiterVars, cacheVars, analyzerVars, collabVars >>

\* the handler's tail: sessions.set, saveSession when reached, the response
Commit(sessionId, outcome) ==
    /\ sessions' = Put(sessions, sessionId, outcome.session)
    /\ db' = IF outcome.save THEN Put(db, sessionId, saveSession(outcome.session)) ELSE db
    /\ last' = outcome.response
    /\ UNCHANGED thinkingVars
    /\ UNCHANGED serviceVars
    /\ UNCHANGED << limiterVars, cacheVars, analyzerVars, collabVars >>

Init ==
    /\ sessions = << >>
    /\ db = << >>
    /\ last = Success("constructor", Undefined)
    /\ firstEvaluated = [s \in SessionIds |-> << >>]
    /\ thinkingSessions = << >>
    /\ branches = << >>
    /\ thinkingDb = << >>
    /\ maxThoughts = << >>
    /\ concluded = {}
    /\ calls = [caller \in Callers |-> Idle]
    /\ limiters = [name \in LimiterNames |-> << >>]
    /\ unswept = [name \in LimiterNames |-> << >>]
    /\ granted = [name \in LimiterNames |-> << >>]
    /\ now = 0
    /\ cache = << >>
    /\ unsweptCache = << >>
    /\ analyzerSessions = << >>
    /\ collaborations = << >>
    /\ locks = << >>
    /\ events = << >>

StartDecision(context) ==
    LET errors == validateStartDecision([context |-> context])
    IN  IF errors # << >>
        THEN /\ last' = Failure("startDecision", "Validation failed: " \o Join(errors),
                                Undefined)
             /\ UNCHANGED << sessions, db, firstEvaluated >>
             /\ UNCHANGED thinkingVars
             /\ UNCHANGED serviceVars
             /\ UNCHANGED << limiterVars, cacheVars, analyzerVars, collabVars >>
        ELSE \E sessionId \in SessionIds \ (DOMAIN sessions \cup DOMAIN db) :
                /\ Commit(sessionId,
                          Outcome(NewSession(sessionId, context),
                                  Success("startDecision", NewSession(sessionId, context)),
                                  TRUE))
                /\ UNCHANGED firstEvaluated

AddCriteria(sessionId, name, description, weight, type) ==
    IF Lookup(sessionId) = Undefined THEN NotFound("addCriteria")
    ELSE LET outcome == addCriteria(Lookup(sessionId),
                                    [name |-> name, description |-> description,
                                     weight |-> weight, type |-> type])
         IN  /\ Len(outcome.session.criteria) <= MaxCriteria
             /\ Commit(sessionId, outcome)
             /\ UNCHANGED firstEvaluated

AddOption(sessionId, name, description) ==
    IF Lookup(sessionId) = Undefined THEN NotFound("addOption")
    ELSE LET outcome == addOption(Lookup(sessionId),
                                  [name |-> name, description |-> description])
         IN  /\ Len(outcome.session.options) <= MaxOptions
             /\ Commit(sessionId, outcome)
             /\ UNCHANGED firstEvaluated

EvaluateOption(sessionId, optionId, scores) ==
    IF Lookup(sessionId) = Undefined THEN NotFound("evaluateOption")
    ELSE LET outcome == evaluateOption(Lookup(sessionId),
                                       [optionId |-> optionId, scores |-> scores])
             first == firstEvaluated[sessionId]
         IN  /\ Commit(sessionId, outcome)
             /\ firstEvaluated' =
                    IF outcome.response.success
                       /\ \A i \in 1..Len(first) : first[i] # optionId
                    THEN [firstEvaluated EXCEPT ![sessionId] = Append(@, optionId)]
                    ELSE firstEvaluated

AnalyzeDecision(sessionId, includeAlternatives) ==
    IF Lookup(sessionId) = Undefined THEN NotFound("analyzeDecision")
    ELSE /\ Commit(sessionId,
                   analyzeDecision(Lookup(sessionId),
                                   [includeAlternatives |-> includeAlternatives]))
         /\ UNCHANGED firstEvaluated

MakeRecommendation(sessionId, minConfidence) ==
    IF Lookup(sessionId) = Undefined THEN NotFound("makeRecommendation")
    ELSE /\ Commit(sessionId,
                   makeRecommendation(Lookup(sessionId),
                                      [minConfidence |-> minConfidence]))
         /\ UNCHANGED firstEvaluated

Next ==
    \/ \E context \in Contexts : StartDecision(context)
    \/ \E sessionId \in SessionIds, name \in CriteriaNames, description \in Descriptions,
          weight \in Weights, type \in CriteriaTypes :
          AddCriteria(sessionId, name, description, weight, type)
    \/ \E sessionId \in SessionIds, name \in OptionNames, description \in Descriptions :
          AddOption(sessionId, name, description)
    \/ \E sessionId \in SessionIds, optionId \in OptionIdInputs, scores \in ScoreLists :
          EvaluateOption(sessionId, optionId, scores)
    \/ \E sessionId \in SessionIds, includeAlternatives \in BOOLEAN :
          AnalyzeDecision(sessionId, includeAlternatives)
    \/ \E sessionId \in SessionIds, minConfidence \in MinConfidences :
          MakeRecommendation(sessionId, minConfidence)

Spec == Init /\ [][Next]_vars

\* DecisionAnalyzerTool.validateLogic on the session handed over by setSession
ValidateLogic(sessionId) ==
    /\ last' = IF Lookup(sessionId) = Undefined
               THEN Failure("validateLogic", "Session not found", Undefined)
               ELSE validateLogic(Lookup(sessionId))
    /\ UNCHANGED << sessions, db, firstEvaluated >>
    /\ UNCHANGED thinkingVars
    /\ UNCHANGED serviceVars
    /\ UNCHANGED << limiterVars, cacheVars, analyzerVars, collabVars >>

\* sessions are built with weights around 1 and evaluated with scores in and
\* out of range, then validated
ValidationNext ==
    \/ StartDecision("Choose CRM vendor")
    \/ \E sessionId \in SessionIds, criterion \in LogicCriteria :
          AddCriteria(sessionId, criterion.name, "d", criterion.weight, "benefit")
    \/ \E sessionId \in SessionIds : AddOption(sessionId, "A", "d")
    \/ \E sessionId \in SessionIds, optionId \in OptionIdInputs, scores \in WideScoreLists :
          EvaluateOption(sessionId, optionId, scores)
    \/ \E sessionId \in SessionIds : ValidateLogic(sessionId)

ValidationSpec == Init /\ [][ValidationNext]_vars

\* ---- addCriteria as the event loop runs it: the code up to an await is one
\* step, the store's read is another, the code after the await a third ----

\* the write-back of a call: this.sessions.set and saveSession's row
WriteBackMerged(stored, session) ==
    IF stored = Undefined THEN saveSession(session)
    ELSE [saveSession(session) EXCEPT !.criteria =
            stored.criteria \o SelectSeq(session.criteria,
                                         LAMBDA c : \A i \in 1..Len(stored.criteria) :
                                                        stored.criteria[i].name # c.name)]
WriteBack(stored, session) == saveSession(session)

\* lines 133-165: the status check, the validation, the push, sessions.set and
\* the issue of the store's write, on the session object the call holds
MutateAndSave(caller, params, session) ==
    LET outcome == addCriteria(session, params)
    IN  /\ Len(outcome.session.criteria) <= MaxCriteria
        /\ sessions' = Put(sessions, params.sessionId, outcome.session)
        /\ db' = IF outcome.save
                 THEN Put(db, params.sessionId,
                          WriteBack(loadSession(params.sessionId), outcome.session))
                 ELSE db
        /\ calls' = [calls EXCEPT ![caller] =
                        [pc |-> "saving", params |-> params, response |-> outcome.response]]

\* lines 117-120: sessions.get; a hit goes on at once, a miss issues loadSession
BeginAddCriteria(caller, params) ==
    /\ calls[caller].pc = "idle"
    /\ IF params.sessionId \in DOMAIN sessions
       THEN MutateAndSave(caller, params, sessions[params.sessionId])
       ELSE /\ calls' = [calls EXCEPT ![caller] = [pc |-> "reading", params |-> params]]
            /\ UNCHANGED << sessions, db >>
    /\ UNCHANGED << last, firstEvaluated >>
    /\ UNCHANGED thinkingVars
    /\ UNCHANGED << limiterVars, cacheVars, analyzerVars, collabVars >>

\* the store answers the SELECT of loadSession
ReadReturns(caller) ==
    /\ calls[caller].pc = "reading"
    /\ calls' = [calls EXCEPT ![caller] =
                    [pc |-> "loaded", params |-> calls[caller].params,
                     loaded |-> loadSession(calls[caller].params.sessionId)]]
    /\ UNCHANGED << sessions, db, last, firstEvaluated >>
    /\ UNCHANGED thinkingVars
    /\ UNCHANGED << limiterVars, cacheVars, analyzerVars, collabVars >>

\* lines 121-165: the code after `await this.loadSession`
ResumeAddCriteria(caller) ==
    /\ calls[caller].pc = "loaded"
    /\ IF calls[caller].loaded = Undefined
       THEN /\ calls' = [calls EXCEPT ![caller] =
                           [pc |-> "saving", params |-> calls[caller].params,
                            response |-> Failure("addCriteria", "Decision session not found",
                                                 Undefined)]]
            /\ UNCHANGED << sessions, db >>
       ELSE MutateAndSave(caller, calls[caller].params, calls[caller].loaded)
    /\ UNCHANGED << last, firstEvaluated >>
    /\ UNCHANGED thinkingVars
    /\ UNCHANGED << limiterVars, cacheVars, analyzerVars, collabVars >>

\* the promise of the call resolves: the caller has its response
ReturnAddCriteria(caller) ==
    /\ calls[caller].pc = "saving"
    /\ last' = calls[caller].response
    /\ calls' = [calls EXCEPT ![caller] =
                    [pc |-> "idle", params |-> calls[caller].params,
                     response |-> calls[caller].response]]
    /\ UNCHANGED << sessions, db, firstEvaluated >>
    /\ UNCHANGED thinkingVars
    /\ UNCHANGED << limiterVars, cacheVars, analyzerVars, collabVars >>

\* the server process ends and a new one is constructed over the same store
RestartDecisions ==
    /\ sessions # << >>
    /\ \A caller \in Callers : calls[caller].pc = "idle"
    /\ sessions' = << >>
    /\ calls' = [caller \in Callers |-> Idle]
    /\ last' = Success("constructor", Undefined)
    /\ UNCHANGED << db, firstEvaluated >>
    /\ UNCHANGED thinkingVars
    /\ UNCHANGED << limiterVars, cacheVars, analyzerVars, collabVars >>

ConcurrentNext ==
    \/ StartDecision("Choose CRM vendor")
    \/ \E caller \in Callers, sessionId \in DOMAIN db \cup {UnknownSessionId},
          name \in RacingNames :
          BeginAddCriteria(caller, [sessionId |-> sessionId, name |-> name,
                                    description |-> "d", weight |-> Rat(1, 2),
                                    type |-> "benefit"])
    \/ \E caller \in Callers : ReadReturns(caller)
    \/ \E caller \in Callers : ResumeAddCriteria(caller)
    \/ \E caller \in Callers : ReturnAddCriteria(caller)
    \/ RestartDecisions

ConcurrentSpec == Init /\ [][ConcurrentNext]_vars

\* validate_logic as a function of the session: the sessions that successful
\* add_criteria, add_option and evaluate_option calls build, with up to
\* MaxValidatedOptions options of which the first few are evaluated
RECURSIVE WithCriteria(_, _)
WithCriteria(session, criteria) ==
    IF criteria = << >> THEN session
    ELSE WithCriteria(addCriteria(session,
                                  [name |-> Head(criteria).name, description |-> "d",
                                   weight |-> Head(criteria).weight,
                                   type |-> "benefit"]).session,
                      Tail(criteria))

RECURSIVE WithOptions(_, _)
WithOptions(session, count) ==
    IF count = 0 THEN session
    ELSE addOption(WithOptions(session, count - 1),
                   [name |-> "A", description |-> "d"]).session

RECURSIVE WithEvaluations(_, _, _)
WithEvaluations(session, count, reasoning) ==
    IF count = 0 THEN session
    ELSE evaluateOption(WithEvaluations(session, count - 1, reasoning),
                        [optionId |-> count,
                         scores |-> [i \in 1..Len(session.criteria) |->
                                       [score |-> 5, reasoning |-> reasoning]]]).session

ValidatedSessions ==
    {WithEvaluations(WithOptions(WithCriteria(NewSession("s1", "Choose CRM vendor"),
                                              criteria),
                                 options),
                     evaluated, reasoning) :
        criteria \in UNION {[1..n -> LogicCriteria] : n \in 0..MaxCriteria},
        options \in 0..MaxValidatedOptions,
        evaluated \in 0..MaxOptions,
        reasoning \in WideReasonings}

LogicInit ==
    \E session \in ValidatedSessions :
        /\ sessions = [id \in {session.id} |-> session]
        /\ db = [id \in {session.id} |-> saveSession(session)]
        /\ last = Success("constructor", Undefined)
        /\ firstEvaluated =
              [id \in SessionIds |->
                  [k \in 1..Len(session.evaluations) |-> session.evaluations[k].optionId]]
        /\ thinkingSessions = << >>
        /\ branches = << >>
        /\ thinkingDb = << >>
        /\ maxThoughts = << >>
        /\ concluded = {}
        /\ calls = [caller \in Callers |-> Idle]
        /\ limiters = [name \in LimiterNames |-> << >>]
        /\ unswept = [name \in LimiterNames |-> << >>]
        /\ granted = [name \in LimiterNames |-> << >>]
        /\ now = 0
        /\ cache = << >>
        /\ unsweptCache = << >>
        /\ analyzerSessions = << >>
        /\ collaborations = << >>
        /\ locks = << >>
        /\ events = << >>

LogicNext == \E sessionId \in SessionIds : ValidateLogic(sessionId)

LogicSpec == LogicInit /\ [][LogicNext]_vars

(* --------------------------- thinking sessions ------------------------- *)

validateStartThinking(params) ==
    (IF IsBlank(params.problem) THEN << "Problem description is required" >> ELSE << >>)
    \o (IF "maxThoughts" \in DOMAIN params
           /\ params.maxThoughts # 0
           /\ (params.maxThoughts < 1 \/ params.maxThoughts > 1000)
        THEN << "Max thoughts must be between 1 and 1000" >>
        ELSE << >>)

\* params.maxThoughts || 50
DefaultMaxThoughts == 50
MaxThoughtsOf(params) ==
    IF "maxThoughts" \in DOMAIN params /\ params.maxThoughts # 0
    THEN params.maxThoughts
    ELSE DefaultMaxThoughts

\* the session object startThinking builds
NewThinkingSession(sessionId, problem) ==
    [id |-> sessionId, problem |-> problem, thoughts |-> << >>, branches |-> << >>,
     status |-> "active", conclusion |-> UndefinedString]

\* saveSessionToDatabase: the row written by db.saveSession
ThinkingRecord(session) ==
    [id |-> session.id, type |-> "thinking", data |-> session, status |-> session.status]

\* the thought object addThought builds
NewThought(session, content) ==
    [id |-> << session.id, Len(session.thoughts) + 1 >>,
     content |-> content,
     metadata |-> [sessionId |-> session.id,
                   thoughtNumber |-> Len(session.thoughts) + 1,
                   revised |-> FALSE,
                   revisionReason |-> UndefinedString]]

\* session.thoughts.push(thought)
PushThoughtFirst(thoughts, thought) == << thought >> \o thoughts
PushThought(thoughts, thought) == Append(thoughts, thought)

\* thought.content = params.newThought; thought.metadata = {...revised}
Revised(thought, newThought, reason) ==
    [thought EXCEPT !.content = newThought,
                    !.metadata = [@ EXCEPT !.revised = TRUE, !.revisionReason = reason]]

\* the loop over this.sessions looking for the thought: the owning session id
HasThought(session, thoughtId) ==
    \E i \in 1..Len(session.thoughts) : session.thoughts[i].id = thoughtId
SessionOfAnyThought(thoughtId) ==
    IF thinkingSessions = << >> THEN Undefined
    ELSE << CHOOSE sessionId \in DOMAIN thinkingSessions : TRUE >>
SessionOfThought(thoughtId) ==
    IF \E sessionId \in DOMAIN thinkingSessions :
          HasThought(thinkingSessions[sessionId], thoughtId)
    THEN << CHOOSE sessionId \in DOMAIN thinkingSessions :
               HasThought(thinkingSessions[sessionId], thoughtId) >>
    ELSE Undefined

\* the branch object branchFromThought builds; params.description || params.newDirection
NewBranch(branchId, thoughtId, newDirection, description) ==
    [id |-> branchId, fromThoughtId |-> thoughtId,
     description |-> IF description = "" THEN newDirection ELSE description,
     thoughts |-> << >>]

\* this.branches.set(branchId, branch)
SetBranch(map, branch) == Put(map, branch.id, branch)

ThinkingFailure(op, error) ==
    /\ last' = Failure(op, error, Undefined)
    /\ UNCHANGED thinkingVars
    /\ UNCHANGED decisionVars

StartThinking(params) ==
    LET errors == validateStartThinking(params)
    IN  IF errors # << >>
        THEN ThinkingFailure("startThinking", "Validation failed: " \o Join(errors))
        ELSE \E sessionId \in ThinkingIds \ (DOMAIN thinkingSessions \cup DOMAIN thinkingDb) :
                LET session == NewThinkingSession(sessionId, params.problem)
                IN  /\ thinkingSessions' = Put(thinkingSessions, sessionId, session)
                    /\ thinkingDb' = Put(thinkingDb, sessionId, ThinkingRecord(session))
                    /\ maxThoughts' = Put(maxThoughts, sessionId, MaxThoughtsOf(params))
                    /\ last' = Success("startThinking",
                                       [sessionId |-> sessionId,
                                        maxThoughts |-> MaxThoughtsOf(params)])
                    /\ UNCHANGED << branches, concluded >>
                    /\ UNCHANGED decisionVars

AddThought(sessionId, thought) ==
    IF sessionId \notin DOMAIN thinkingSessions
    THEN ThinkingFailure("addThought", "Thinking session not found")
    ELSE IF thinkingSessions[sessionId].status # "active"
    THEN ThinkingFailure("addThought", "Cannot add thoughts to inactive session")
    ELSE LET session == thinkingSessions[sessionId]
         IN  /\ Len(session.thoughts) < MaxStoredThoughts
             /\ thinkingSessions' =
                    [thinkingSessions EXCEPT ![sessionId].thoughts =
                        PushThought(@, NewThought(session, thought))]
             /\ last' = Success("addThought", NewThought(session, thought))
             /\ UNCHANGED << branches, thinkingDb, maxThoughts, concluded >>
             /\ UNCHANGED decisionVars

ReviseThought(thoughtId, newThought, reason) ==
    LET owner == SessionOfThought(thoughtId)
    IN  IF owner = Undefined
        THEN ThinkingFailure("reviseThought", "Thought not found")
        ELSE IF thinkingSessions[owner[1]].status # "active"
        THEN ThinkingFailure("reviseThought", "Cannot revise thoughts in inactive session")
        ELSE /\ thinkingSessions' =
                    [thinkingSessions EXCEPT ![owner[1]].thoughts =
                        [i \in 1..Len(@) |->
                            IF @[i].id = thoughtId
                            THEN Revised(@[i], newThought, reason)
                            ELSE @[i]]]
             /\ last' = Success("reviseThought",
                                LET foundThought ==
                                        Find(thinkingSessions[owner[1]].thoughts,
                                             LAMBDA t : t.id = thoughtId)
                                IN  IF foundThought = Undefined THEN Undefined
                                    ELSE Revised(foundThought, newThought, reason))
             /\ UNCHANGED << branches, thinkingDb, maxThoughts, concluded >>
             /\ UNCHANGED decisionVars

BranchFromThought(thoughtId, newDirection, description) ==
    LET owner == SessionOfThought(thoughtId)
        branchId == << "branch", Cardinality(DOMAIN branches) + 1 >>
    IN  IF owner = Undefined
        THEN ThinkingFailure("branchFromThought", "Thought not found")
        ELSE IF thinkingSessions[owner[1]].status # "active"
        THEN ThinkingFailure("branchFromThought", "Cannot create branches in inactive session")
        ELSE /\ Cardinality(DOMAIN branches) < MaxStoredBranches
             /\ branches' = SetBranch(branches,
                                      NewBranch(branchId, thoughtId, newDirection, description))
             /\ thinkingSessions' =
                    [thinkingSessions EXCEPT ![owner[1]].branches = Append(@, branchId)]
             /\ last' = Success("branchFromThought",
                                NewBranch(branchId, thoughtId, newDirection, description))
             /\ UNCHANGED << thinkingDb, maxThoughts, concluded >>
             /\ UNCHANGED decisionVars

\* session.status = 'completed'; session.conclusion = params.conclusion
Concluded(session, conclusion) ==
    [session EXCEPT !.status = "completed", !.conclusion = conclusion]

ConcludeThinking(sessionId, conclusion) ==
    IF sessionId \notin DOMAIN thinkingSessions
    THEN ThinkingFailure("concludeThinking", "Thinking session not found")
    ELSE IF thinkingSessions[sessionId].status # "active"
    THEN ThinkingFailure("concludeThinking", "Session is not active")
    ELSE /\ thinkingSessions' =
                [thinkingSessions EXCEPT ![sessionId] = Concluded(@, conclusion)]
         /\ concluded' = concluded \cup {sessionId}
         /\ last' = Success("concludeThinking",
                            Concluded(thinkingSessions[sessionId], conclusion))
         /\ UNCHANGED << branches, thinkingDb, maxThoughts >>
         /\ UNCHANGED decisionVars

\* getSession: the in-memory Map first, then the store; a loaded session is
\* put into the Map
GetThinkingSession(sessionId) ==
    IF sessionId \in DOMAIN thinkingSessions
    THEN /\ last' = Success("getSession", thinkingSessions[sessionId])
         /\ UNCHANGED thinkingVars
         /\ UNCHANGED decisionVars
    ELSE IF sessionId \in DOMAIN thinkingDb
    THEN /\ thinkingSessions' = Put(thinkingSessions, sessionId, thinkingDb[sessionId].data)
         /\ last' = Success("getSession", thinkingDb[sessionId].data)
         /\ UNCHANGED << branches, thinkingDb, maxThoughts, concluded >>
         /\ UNCHANGED decisionVars
    ELSE ThinkingFailure("getSession", "Thinking session not found")

\* the server process ends and a new one is constructed over the same store
Restart ==
    /\ thinkingSessions # << >>
    /\ thinkingSessions' = << >>
    /\ branches' = << >>
    /\ last' = Success("constructor", Undefined)
    /\ UNCHANGED << thinkingDb, maxThoughts, concluded >>
    /\ UNCHANGED decisionVars

ThinkingNext ==
    \/ \E params \in StartThinkingInputs :
          StartThinking(params) /\ UNCHANGED << limiterVars, cacheVars, analyzerVars, collabVars >>
    \/ \E sessionId \in ThinkingIds, thought \in ThoughtTexts :
          AddThought(sessionId, thought) /\ UNCHANGED << limiterVars, cacheVars, analyzerVars, collabVars >>
    \/ \E thoughtId \in ThoughtIdInputs, newThought \in NewThoughtTexts :
          ReviseThought(thoughtId, newThought, "User revision") /\ UNCHANGED << limiterVars, cacheVars, analyzerVars, collabVars >>
    \/ \E thoughtId \in ThoughtIdInputs :
          BranchFromThought(thoughtId, "check the key", "User-created branch")
             /\ UNCHANGED << limiterVars, cacheVars, analyzerVars, collabVars >>
    \/ \E sessionId \in ThinkingIds, conclusion \in Conclusions :
          ConcludeThinking(sessionId, conclusion) /\ UNCHANGED << limiterVars, cacheVars, analyzerVars, collabVars >>
    \/ \E sessionId \in ThinkingIds : GetThinkingSession(sessionId) /\ UNCHANGED << limiterVars, cacheVars, analyzerVars, collabVars >>
    \/ Restart /\ UNCHANGED << limiterVars, cacheVars, analyzerVars, collabVars >>

ThinkingSpec == Init /\ [][ThinkingNext]_vars

(* ----------------------------- rate limiter ---------------------------- *)

\* config.keyGenerator of sessionRateLimiter and globalRateLimiter
keyGenerator(name, identifier) ==
    IF name = "global" THEN "global" ELSE "session:" \o identifier

\* !entry || entry.resetTime <= now
Expired(store, key, t) == key \notin DOMAIN store \/ store[key].resetTime <= t

\* isAllowed with the limit test entry.count > maxRequests
isAllowedOneMore(store, key, t) ==
    LET entry == IF Expired(store, key, t)
                 THEN [count |-> 0, resetTime |-> t + WindowMs]
                 ELSE store[key]
    IN  IF entry.count > MaxRequests
        THEN [store |-> store,
              result |-> [allowed |-> FALSE, remaining |-> 0, resetTime |-> entry.resetTime]]
        ELSE [store |-> Put(store, key, [entry EXCEPT !.count = @ + 1]),
              result |-> [allowed |-> TRUE, remaining |-> MaxRequests - (entry.count + 1),
                          resetTime |-> entry.resetTime]]

\* isAllowed: the store afterwards and the result
isAllowed(store, key, t) ==
    LET entry == IF Expired(store, key, t)
                 THEN [count |-> 0, resetTime |-> t + WindowMs]
                 ELSE store[key]
    IN  IF entry.count >= MaxRequests
        THEN [store |-> store,
              result |-> [allowed |-> FALSE, remaining |-> 0, resetTime |-> entry.resetTime]]
        ELSE [store |-> Put(store, key, [entry EXCEPT !.count = @ + 1]),
              result |-> [allowed |-> TRUE, remaining |-> MaxRequests - (entry.count + 1),
                          resetTime |-> entry.resetTime]]

\* getStats: null without an entry or with an expired one
getStats(store, key, t) ==
    IF Expired(store, key, t) THEN Undefined
    ELSE [count |-> store[key].count,
          remaining |-> IF MaxRequests - store[key].count < 0 THEN 0
                        ELSE MaxRequests - store[key].count,
          resetTime |-> store[key].resetTime]

cleanupAll(store, t) == << >>

\* cleanup: delete every entry with resetTime <= now
cleanup(store, t) ==
    [key \in {k \in DOMAIN store : store[k].resetTime > t} |-> store[key]]

\* the log of allowed calls after a call on key that returned result: a
\* result with a new resetTime starts the count of a new window
Granted(log, key, result) ==
    IF ~result.allowed THEN log
    ELSE IF key \in DOMAIN log /\ log[key].resetTime = result.resetTime
         THEN Put(log, key, [log[key] EXCEPT !.allowed = @ + 1])
         ELSE Put(log, key, [resetTime |-> result.resetTime, allowed |-> 1])

\* the effect of one isAllowed call on a limiter, on its unswept twin and on
\* the log of allowed calls
Counted(name, identifier) ==
    /\ limiters' = [limiters EXCEPT ![name] =
                       isAllowed(@, keyGenerator(name, identifier), now).store]
    /\ unswept' = [unswept EXCEPT ![name] =
                      isAllowed(@, keyGenerator(name, identifier), now).store]
    /\ granted' = [granted EXCEPT ![name] =
                      Granted(@, keyGenerator(name, identifier),
                              isAllowed(limiters[name], keyGenerator(name, identifier),
                                        now).result)]
    /\ UNCHANGED now

LimiterFrame ==
    /\ UNCHANGED << sessions, db, firstEvaluated >>
    /\ UNCHANGED thinkingVars
    /\ UNCHANGED serviceVars
    /\ UNCHANGED << cacheVars, analyzerVars, collabVars >>

IsAllowed(name, identifier) ==
    /\ Counted(name, identifier)
    /\ last' = Success("isAllowed",
                       isAllowed(limiters[name], keyGenerator(name, identifier), now).result)
    /\ LimiterFrame

GetStats(name, identifier) ==
    /\ last' = Success("getStats",
                       getStats(limiters[name], keyGenerator(name, identifier), now))
    /\ UNCHANGED limiterVars
    /\ LimiterFrame

\* the setInterval callback of one limiter
Cleanup(name) ==
    /\ limiters' = [limiters EXCEPT ![name] = cleanup(@, now)]
    /\ UNCHANGED << unswept, granted, now, last >>
    /\ LimiterFrame

\* time passes
Tick ==
    /\ now < MaxClock
    /\ now' = now + 1
    /\ UNCHANGED << limiters, unswept, granted, last >>
    /\ LimiterFrame

LimiterNext ==
    \/ \E name \in LimiterNames, identifier \in ThinkingIds : IsAllowed(name, identifier)
    \/ \E name \in LimiterNames, identifier \in ThinkingIds : GetStats(name, identifier)
    \/ \E name \in LimiterNames : Cleanup(name)
    \/ Tick

LimiterSpec == Init /\ [][LimiterNext]_vars

(* --------------------------- server handlers --------------------------- *)

\* globalRateLimiter.isAllowed('global'), the result dropped, then the tool
HandleStartThinking(params) ==
    /\ Counted("global", "global")
    /\ StartThinking(params)
    /\ UNCHANGED << cacheVars, analyzerVars, collabVars >>

\* sessionRateLimiter.isAllowed(sessionId), the result dropped, then the tool
HandleAddThought(sessionId, thought) ==
    /\ Counted("session", sessionId)
    /\ AddThought(sessionId, thought)
    /\ UNCHANGED << cacheVars, analyzerVars, collabVars >>

ServerNext ==
    \/ \E params \in [problem : Problems] : HandleStartThinking(params)
    \/ \E sessionId \in ThinkingIds, thought \in ThoughtTexts :
          HandleAddThought(sessionId, thought)
    \/ Tick

ServerSpec == Init /\ [][ServerNext]_vars

(* ------------------------- composite workflow -------------------------- *)

\* what make_decision is called with: a context, criteria, options and
\* either no evaluations or one supplied evaluation
SuppliedCriteria ==
    [name : CriteriaNames, description : Descriptions,
     weight : {Rat(1, 2), Rat(3, 2)}, type : CriteriaTypes]
SuppliedOptions == [name : {"", "A"}, description : Descriptions]
SuppliedEvaluations == [optionId : {1}, scores : ScoreLists]
MakeDecisionArgs ==
    [context : Contexts,
     criteria : UNION {[1..n -> SuppliedCriteria] : n \in 0..MaxCriteria},
     options : UNION {[1..n -> SuppliedOptions] : n \in 0..MaxOptions},
     evaluations : UNION {[1..n -> SuppliedEvaluations] : n \in 0..1},
     minConfidence : {Undefined, Rat(9, 10)}]

\* the least and the greatest value of Math.floor(Math.random() * 4) + 6
RandomScores == {6, 9}

\* the caller whose make_decision call is followed
Composer == "c1"

\* sanitizeInput: whitespace collapsed and trimmed, <>"'& removed; the
\* strings drawn here hold none of these except the blank ones
sanitizeInput(input) == IF IsBlank(input) THEN "" ELSE input

\* ProblemSchema = z.string().min(10).max(5000)
validateProblem(problem) ==
    IF Len(problem) >= 10 /\ Len(problem) <= 5000 THEN << >>
    ELSE << "Problem description must be between 10 and 5000 characters" >>

\* one score per supplied criterion
AutoScores(criteria, random) ==
    [i \in 1..Len(criteria) |->
        [score |-> random[i],
         reasoning |-> "Auto-generated evaluation for " \o criteria[i].name]]

\* evaluations.length === 0 && criteria.length > 0 && optionIds.length > 0
AutoGenerated(call) ==
    /\ Len(call.args.evaluations) = 0
    /\ Len(call.args.criteria) > 0
    /\ Len(call.optionIds) > 0

\* sessions.set and saveSession of one awaited tool call; its response is
\* not sent to the client
Awaited(sessionId, outcome) ==
    /\ sessions' = Put(sessions, sessionId, outcome.session)
    /\ db' = IF outcome.save THEN Put(db, sessionId, saveSession(outcome.session)) ELSE db
    /\ UNCHANGED << last, limiterVars, cacheVars, analyzerVars, collabVars >>
    /\ UNCHANGED thinkingVars

\* make_decision up to its first loop: the limiter is counted, the input
\* validated (a throw is answered by the dispatcher's catch), the session
\* started
BeginMakeDecision(args) ==
    LET context == sanitizeInput(args.context)
    IN  /\ calls[Composer] = Idle
        /\ Counted("global", "global")
        /\ UNCHANGED << firstEvaluated, cacheVars, analyzerVars, collabVars >>
        /\ UNCHANGED thinkingVars
        /\ IF validateProblem(context) # << >>
           THEN /\ last' = Failure("makeDecision", Head(validateProblem(context)),
                                   Undefined)
                /\ UNCHANGED << sessions, db, calls >>
           ELSE IF validateStartDecision([context |-> context]) # << >>
           THEN /\ last' = Failure("startDecision",
                                   "Validation failed: "
                                   \o Join(validateStartDecision([context |-> context])),
                                   Undefined)
                /\ UNCHANGED << sessions, db, calls >>
           ELSE \E sessionId \in SessionIds \ (DOMAIN sessions \cup DOMAIN db) :
                   /\ sessions' = Put(sessions, sessionId, NewSession(sessionId, context))
                   /\ db' = Put(db, sessionId,
                                saveSession(NewSession(sessionId, context)))
                   /\ calls' = [calls EXCEPT ![Composer] =
                                   [pc |-> "criteria", args |-> args,
                                    sessionId |-> sessionId, criteria |-> args.criteria,
                                    options |-> args.options, optionIds |-> << >>,
                                    evaluations |-> << >>, analysis |-> Undefined,
                                    recommendation |-> Undefined]]
                   /\ UNCHANGED last

\* for (const criterion of criteria) await addCriteria(...)
AddSuppliedCriteria ==
    LET call == calls[Composer]
    IN  /\ call.pc = "criteria"
        /\ UNCHANGED firstEvaluated
        /\ IF call.criteria = << >>
           THEN /\ calls' = [calls EXCEPT ![Composer].pc = "options"]
                /\ UNCHANGED << sessions, db, last, limiterVars, cacheVars, analyzerVars, collabVars >>
                /\ UNCHANGED thinkingVars
           ELSE /\ Awaited(call.sessionId,
                           addCriteria(Lookup(call.sessionId), Head(call.criteria)))
                /\ calls' = [calls EXCEPT ![Composer].criteria = Tail(@)]

\* for (const option of options): addOption, the id kept when it succeeded;
\* after the loop the evaluations to run are the supplied ones, or one per
\* added option
AddSuppliedOption ==
    LET call == calls[Composer]
        outcome == addOption(Lookup(call.sessionId), Head(call.options))
    IN  /\ call.pc = "options"
        /\ UNCHANGED firstEvaluated
        /\ IF call.options = << >>
           THEN /\ calls' = [calls EXCEPT
                               ![Composer].pc = "evaluations",
                               ![Composer].evaluations =
                                   IF AutoGenerated(call) THEN call.optionIds
                                   ELSE call.args.evaluations]
                /\ UNCHANGED << sessions, db, last, limiterVars, cacheVars, analyzerVars, collabVars >>
                /\ UNCHANGED thinkingVars
           ELSE /\ Awaited(call.sessionId, outcome)
                /\ calls' = [calls EXCEPT
                               ![Composer].options = Tail(@),
                               ![Composer].optionIds =
                                   IF outcome.response.success
                                   THEN Append(@, outcome.response.data.id) ELSE @]

\* await evaluateOption(...) with generated or supplied scores
EvaluateSupplied ==
    LET call == calls[Composer]
        first == firstEvaluated[call.sessionId]
    IN  /\ call.pc = "evaluations"
        /\ IF call.evaluations = << >>
           THEN /\ calls' = [calls EXCEPT ![Composer].pc = "analysis"]
                /\ UNCHANGED << sessions, db, last, firstEvaluated, limiterVars, cacheVars, analyzerVars, collabVars >>
                /\ UNCHANGED thinkingVars
           ELSE \E random \in [1..Len(call.args.criteria) -> RandomScores] :
                   LET params ==
                           IF AutoGenerated(call)
                           THEN [optionId |-> Head(call.evaluations),
                                 scores |-> AutoScores(call.args.criteria, random)]
                           ELSE Head(call.evaluations)
                       outcome == evaluateOption(Lookup(call.sessionId), params)
                   IN  /\ Awaited(call.sessionId, outcome)
                       /\ calls' = [calls EXCEPT ![Composer].evaluations = Tail(@)]
                       /\ firstEvaluated' =
                              IF outcome.response.success
                                 /\ \A i \in 1..Len(first) : first[i] # params.optionId
                              THEN [firstEvaluated EXCEPT
                                       ![call.sessionId] = Append(@, params.optionId)]
                              ELSE firstEvaluated

\* const analysisResult = await analyzeDecision({ sessionId, includeAlternatives: true })
AnalyzeSupplied ==
    LET call == calls[Composer]
        outcome == analyzeDecision(Lookup(call.sessionId), [includeAlternatives |-> TRUE])
    IN  /\ call.pc = "analysis"
        /\ Awaited(call.sessionId, outcome)
        /\ calls' = [calls EXCEPT ![Composer].pc = "recommendation",
                                  ![Composer].analysis = outcome.response.data]
        /\ UNCHANGED firstEvaluated

\* const recommendationResult = await makeRecommendation({ sessionId, minConfidence })
RecommendSupplied ==
    LET call == calls[Composer]
        outcome == makeRecommendation(Lookup(call.sessionId),
                                      [minConfidence |-> Threshold(call.args.minConfidence)])
    IN  /\ call.pc = "recommendation"
        /\ Awaited(call.sessionId, outcome)
        /\ calls' = [calls EXCEPT ![Composer].pc = "response",
                                  ![Composer].recommendation = outcome.response.data]
        /\ UNCHANGED firstEvaluated

\* getSession and the response: success: true with whatever the steps left
ReturnMakeDecision ==
    LET call == calls[Composer]
    IN  /\ call.pc = "response"
        /\ last' = [op |-> "makeDecision", success |-> TRUE, error |-> "",
                    data |-> [session |-> Lookup(call.sessionId),
                              analysis |-> call.analysis,
                              recommendation |-> call.recommendation],
                    metadata |-> [sessionId |-> call.sessionId,
                                  criteriaCount |-> Len(call.args.criteria),
                                  optionsCount |-> Len(call.args.options),
                                  evaluationsCount |-> Len(call.args.evaluations)]]
        /\ calls' = [calls EXCEPT ![Composer] = Idle]
        /\ UNCHANGED << sessions, db, firstEvaluated, limiterVars, cacheVars, analyzerVars, collabVars >>
        /\ UNCHANGED thinkingVars

MakeDecisionNext ==
    \/ \E args \in MakeDecisionArgs : BeginMakeDecision(args)
    \/ AddSuppliedCriteria
    \/ AddSuppliedOption
    \/ EvaluateSupplied
    \/ AnalyzeSupplied
    \/ RecommendSupplied
    \/ ReturnMakeDecision

MakeDecisionSpec == Init /\ [][MakeDecisionNext]_vars

(* --------------------------- analyzer handlers ------------------------- *)

\* the ids the analysis tools are called with
AnalysisIds == SessionIds \cup ThinkingIds \cup {UnknownSessionId}

\* DecisionMakerTool.getSession: the response, and the Map after a load
getSession(sessionId) ==
    IF Lookup(sessionId) = Undefined
    THEN Failure("getSession", "Decision session not found", Undefined)
    ELSE Success("getSession", Lookup(sessionId))
SessionsAfterGet(sessionId) ==
    IF Lookup(sessionId) = Undefined THEN sessions
    ELSE Put(sessions, sessionId, Lookup(sessionId))

\* SequentialThinkingTool.getSession: the response, and the Map after a load
getThinkingSession(sessionId) ==
    IF sessionId \in DOMAIN thinkingSessions
    THEN Success("getSession", thinkingSessions[sessionId])
    ELSE IF sessionId \in DOMAIN thinkingDb
    THEN Success("getSession", thinkingDb[sessionId].data)
    ELSE Failure("getSession", "Thinking session not found", Undefined)
ThinkingAfterGet(sessionId) ==
    IF sessionId \notin DOMAIN thinkingSessions /\ sessionId \in DOMAIN thinkingDb
    THEN Put(thinkingSessions, sessionId, thinkingDb[sessionId].data)
    ELSE thinkingSessions

\* what an async method gives when it is called without await: a Promise,
\* an object with neither success nor data
Promise(response) == [promise |-> response]

\* result.success && result.data
Succeeded(result) ==
    /\ "success" \in DOMAIN result
    /\ result.success
    /\ result.data # Undefined

\* getSessionForAnalysis: decisionMaker.getSession is not awaited, the
\* thinking tool's getSession is; null is written Undefined
getSessionForAnalysis(sessionId) ==
    LET decisionResult == Promise(getSession(sessionId))
        thinkingResult == getThinkingSession(sessionId)
    IN  IF Succeeded(decisionResult)
        THEN decisionResult.data @@ [type |-> "decision"]
        ELSE IF Succeeded(thinkingResult)
        THEN thinkingResult.data @@ [type |-> "thinking"]
        ELSE Undefined

\* if (session) this.decisionAnalyzer.setSession(session)
setSession(analyzer, session) ==
    IF session = Undefined THEN analyzer ELSE Put(analyzer, session.id, session)

\* DecisionAnalyzerTool.validateLogic, analyzeBias and assessRisks up to the
\* analysis itself: the session is read from the analyzer's own Map
AnalyzerValidateLogic(analyzer, sessionId) ==
    IF sessionId \notin DOMAIN analyzer
    THEN Failure("validateLogic", "Session not found", Undefined)
    ELSE IF "criteria" \notin DOMAIN analyzer[sessionId]
    THEN Failure("validateLogic",
                 "Logic validation is only available for decision sessions", Undefined)
    ELSE validateLogic(analyzer[sessionId])

\* Math.max(...Object.values(typeCounts)) / criteriaTypes.length > 0.7; without
\* criteria the quotient is -Infinity
hasConfirmationBias(session) ==
    LET n == Len(session.criteria)
        TypeCount(type) == Cardinality({i \in 1..n : session.criteria[i].type = type})
    IN  \E i \in 1..n : 10 * TypeCount(session.criteria[i].type) > 7 * n

\* firstWeight > avgWeight * 1.5, for more than one criterion
hasAnchoringBias(session) ==
    /\ Len(session.criteria) > 1
    /\ LET weights == [i \in 1..Len(session.criteria) |-> session.criteria[i].weight]
           avgWeight == RDiv(RSum(weights), Int2Rat(Len(weights)))
       IN  RLt(RMul(avgWeight, Rat(3, 2)), session.criteria[1].weight)

\* Math.sqrt(lengthVariance) < avgLength * 0.3, both sides squared; without
\* options avgLength is NaN and the comparison false
areOptionsSimilar(options) ==
    /\ Len(options) > 0
    /\ LET n == Int2Rat(Len(options))
           lengths == [i \in 1..Len(options) |-> Int2Rat(Len(options[i].description))]
           avgLength == RDiv(RSum(lengths), n)
           lengthVariance ==
               RDiv(RSum([i \in 1..Len(options) |->
                            RMul(RSub(lengths[i], avgLength),
                                 RSub(lengths[i], avgLength))]), n)
       IN  RLt(lengthVariance, RMul(Rat(9, 100), RMul(avgLength, avgLength)))

hasAvailabilityBias(session) ==
    Len(session.options) < 3 \/ areOptionsSimilar(session.options)

\* Boolean(session.conclusion) && session.thoughts.length < 5
hasOverconfidenceBias(session) ==
    /\ session.conclusion \notin {UndefinedString, ""}
    /\ Len(session.thoughts) < 5

\* a detected bias: its type, its severity and its two lines of evidence
Bias(type, severity) == [type |-> type, severity |-> severity, evidence |-> 2]

detectBiases(session) ==
    IF "criteria" \in DOMAIN session
    THEN (IF hasConfirmationBias(session)
          THEN << Bias("confirmation", Rat(7, 10)) >> ELSE << >>)
         \o (IF hasAnchoringBias(session)
             THEN << Bias("anchoring", Rat(6, 10)) >> ELSE << >>)
         \o (IF hasAvailabilityBias(session)
             THEN << Bias("availability", Rat(5, 10)) >> ELSE << >>)
    ELSE IF "thoughts" \in DOMAIN session
    THEN (IF hasOverconfidenceBias(session)
          THEN << Bias("overconfidence", Rat(6, 10)) >> ELSE << >>)
    ELSE << >>

calculateBiasScore(biases) ==
    IF Len(biases) = 0 THEN Zero
    ELSE RDiv(RSum([i \in 1..Len(biases) |-> biases[i].severity]), Int2Rat(Len(biases)))

\* Math.min(1, totalEvidence / (biases.length * 3)): 0 / 0 is NaN, and
\* Math.min(1, NaN) is NaN
calculateBiasConfidence(biases) ==
    LET totalEvidence == RSum([i \in 1..Len(biases) |-> Int2Rat(biases[i].evidence)])
    IN  IF Len(biases) = 0 THEN NaN
        ELSE RMin(One, RDiv(totalEvidence, Int2Rat(Len(biases) * 3)))

analyzeBias(analyzer, sessionId) ==
    IF sessionId \notin DOMAIN analyzer
    THEN Failure("analyzeBias", "Session not found", Undefined)
    ELSE LET detectedBiases == detectBiases(analyzer[sessionId])
         IN  Success("analyzeBias",
                     [sessionId |-> sessionId,
                      detectedBiases |-> detectedBiases,
                      overallBiasScore |-> calculateBiasScore(detectedBiases),
                      confidence |-> calculateBiasConfidence(detectedBiases)])
assessRisks(analyzer, sessionId) ==
    IF sessionId \notin DOMAIN analyzer
    THEN Failure("assessRisks", "Session not found", Undefined)
    ELSE IF "criteria" \notin DOMAIN analyzer[sessionId]
    THEN Failure("assessRisks",
                 "Risk assessment is only available for decision sessions", Undefined)
    ELSE Success("assessRisks", [sessionId |-> sessionId])

\* the part the three handlers share: the session is fetched and handed to
\* the analyzer; the two getSession calls fill the tools' Maps from the store
FetchedForAnalysis(sessionId) ==
    /\ analyzerSessions' = setSession(analyzerSessions, getSessionForAnalysis(sessionId))
    /\ sessions' = SessionsAfterGet(sessionId)
    /\ thinkingSessions' = ThinkingAfterGet(sessionId)
    /\ UNCHANGED << db, firstEvaluated, serviceVars, limiterVars, cacheVars, collabVars >>
    /\ UNCHANGED << branches, thinkingDb, maxThoughts, concluded >>

HandleValidateLogic(sessionId) ==
    /\ FetchedForAnalysis(sessionId)
    /\ last' = AnalyzerValidateLogic(
                   setSession(analyzerSessions, getSessionForAnalysis(sessionId)),
                   sessionId)

HandleAnalyzeBias(sessionId) ==
    /\ FetchedForAnalysis(sessionId)
    /\ last' = analyzeBias(setSession(analyzerSessions, getSessionForAnalysis(sessionId)),
                           sessionId)

HandleAssessRisks(sessionId) ==
    /\ FetchedForAnalysis(sessionId)
    /\ last' = assessRisks(setSession(analyzerSessions, getSessionForAnalysis(sessionId)),
                           sessionId)

\* validate_logic of the five-tool server: the limiter is counted, the
\* decision session looked up with await, and the analyzer called without
\* setSession
HandleValidateLogicConsolidated(sessionId) ==
    /\ Counted("global", "global")
    /\ sessions' = SessionsAfterGet(sessionId)
    /\ last' = IF getSession(sessionId).success
               THEN AnalyzerValidateLogic(analyzerSessions, sessionId)
               ELSE Failure("validateLogic",
                            "Session not found or not a decision session", Undefined)
    /\ UNCHANGED << db, firstEvaluated, serviceVars, cacheVars, analyzerVars, collabVars >>
    /\ UNCHANGED thinkingVars

\* decision and thinking sessions are created and filled through the server,
\* and the analysis tools called with their ids
AnalyzerNext ==
    \/ StartDecision("Choose CRM vendor")
    \/ \E sessionId \in SessionIds :
          AddCriteria(sessionId, "Cost", "d", Rat(1, 2), "benefit")
    \/ \E sessionId \in SessionIds : AddOption(sessionId, "A", "d")
    \/ \E params \in [problem : Problems] :
          StartThinking(params) /\ UNCHANGED << limiterVars, cacheVars, analyzerVars, collabVars >>
    \/ \E sessionId \in AnalysisIds : HandleValidateLogic(sessionId)
    \/ \E sessionId \in AnalysisIds : HandleAnalyzeBias(sessionId)
    \/ \E sessionId \in AnalysisIds : HandleAssessRisks(sessionId)
    \/ \E sessionId \in AnalysisIds : HandleValidateLogicConsolidated(sessionId)

AnalyzerSpec == Init /\ [][AnalyzerNext]_vars

(* --------------------------- several sessions -------------------------- *)

\* the criteria, options and thoughts one session is given in these runs
MaxIsolated == 1

\* two decision sessions, started by two start_decision calls
IsolatedIds == {"s1", "s2"}

IsolationInit ==
    /\ sessions = [id \in IsolatedIds |-> NewSession(id, "Choose CRM vendor")]
    /\ db = [id \in IsolatedIds |-> saveSession(NewSession(id, "Choose CRM vendor"))]
    /\ last = Success("startDecision", NewSession("s2", "Choose CRM vendor"))
    /\ firstEvaluated = [id \in IsolatedIds |-> << >>]
    /\ thinkingSessions = << >>
    /\ branches = << >>
    /\ thinkingDb = << >>
    /\ maxThoughts = << >>
    /\ concluded = {}
    /\ calls = [caller \in Callers |-> Idle]
    /\ limiters = [name \in LimiterNames |-> << >>]
    /\ unswept = [name \in LimiterNames |-> << >>]
    /\ granted = [name \in LimiterNames |-> << >>]
    /\ now = 0
    /\ cache = << >>
    /\ unsweptCache = << >>
    /\ analyzerSessions = << >>
    /\ collaborations = << >>
    /\ locks = << >>
    /\ events = << >>

\* the mutating decision tools, called with one session id
MutatesDecision(sessionId) ==
    \/ /\ Len(Lookup(sessionId).criteria) < MaxIsolated
       /\ AddCriteria(sessionId, "Cost", "d", Rat(1, 2), "benefit")
    \/ /\ Len(Lookup(sessionId).options) < MaxIsolated
       /\ AddOption(sessionId, "A", "d")
    \/ EvaluateOption(sessionId, 1, << [score |-> 9, reasoning |-> "because"] >>)
    \/ AnalyzeDecision(sessionId, TRUE)
    \/ MakeRecommendation(sessionId, Undefined)

\* the mutating thinking tools that are called with a session id
MutatesThinking(sessionId) ==
    /\ \/ /\ sessionId \in DOMAIN thinkingSessions
             => Len(thinkingSessions[sessionId].thoughts) < MaxIsolated
          /\ AddThought(sessionId, "the cache is stale")
       \/ ConcludeThinking(sessionId, "roll back the cache change")
    /\ UNCHANGED << limiterVars, cacheVars, analyzerVars, collabVars >>

\* the mutating thinking tools that are called with a thought id
MutatesThought(thoughtId) ==
    /\ \/ ReviseThought(thoughtId, "the cache key is wrong", "User revision")
       \/ BranchFromThought(thoughtId, "check the key", "User-created branch")
    /\ UNCHANGED << limiterVars, cacheVars, analyzerVars, collabVars >>

IsolationNext ==
    \/ \E sessionId \in IsolatedIds : MutatesDecision(sessionId)
    \/ StartThinking([problem |-> "Why did the deploy fail"])
          /\ UNCHANGED << limiterVars, cacheVars, analyzerVars, collabVars >>
    \/ \E sessionId \in ThinkingIds : MutatesThinking(sessionId)
    \/ \E thoughtId \in ThoughtIdInputs : MutatesThought(thoughtId)

IsolationSpec == IsolationInit /\ [][IsolationNext]_vars

(* ----------------------------- bias analysis --------------------------- *)

\* DecisionAnalyzerTool.setSession and analyzeBias called by a holder of the
\* decision session
AnalyzeBias(sessionId) ==
    /\ Lookup(sessionId) # Undefined
    /\ analyzerSessions' = setSession(analyzerSessions, Lookup(sessionId))
    /\ last' = analyzeBias(setSession(analyzerSessions, Lookup(sessionId)), sessionId)
    /\ UNCHANGED << sessions, db, firstEvaluated, serviceVars, limiterVars, cacheVars,
                    collabVars >>
    /\ UNCHANGED thinkingVars

\* the criteria of the bias runs: of two types, the heavier one a benefit
BiasCriteria ==
    {[weight |-> Rat(1, 2), type |-> "benefit"], [weight |-> Zero, type |-> "cost"]}

\* decision sessions with criteria of two types and a thinking session with
\* and without a conclusion, handed to analyze_bias
BiasNext ==
    \/ StartDecision("Choose CRM vendor")
    \/ \E sessionId \in SessionIds, criterion \in BiasCriteria :
          AddCriteria(sessionId, "Cost", "d", criterion.weight, criterion.type)
    \/ \E sessionId \in SessionIds : AddOption(sessionId, "A", "d")
    \/ /\ thinkingSessions = << >>
       /\ StartThinking([problem |-> "Why did the deploy fail"])
       /\ UNCHANGED << limiterVars, cacheVars, analyzerVars, collabVars >>
    \/ \E sessionId \in ThinkingIds, thought \in ThoughtTexts :
          /\ sessionId \in DOMAIN thinkingSessions
          /\ Len(thinkingSessions[sessionId].thoughts) < MaxIsolated
          /\ AddThought(sessionId, thought)
          /\ UNCHANGED << limiterVars, cacheVars, analyzerVars, collabVars >>
    \/ \E sessionId \in ThinkingIds, conclusion \in Conclusions :
          ConcludeThinking(sessionId, conclusion)
             /\ UNCHANGED << limiterVars, cacheVars, analyzerVars, collabVars >>
    \/ \E sessionId \in AnalysisIds : HandleAnalyzeBias(sessionId)
    \/ \E sessionId \in SessionIds : AnalyzeBias(sessionId)

BiasSpec == Init /\ [][BiasNext]_vars

(* ------------------------- confidence by gap --------------------------- *)

\* scores that give gaps from 0 to 10 between two weighted scores
GapScores == {0, 1, 2, 5, 10}

\* one criterion, the options evaluated with every score, then analysed
ConfidenceNext ==
    \/ StartDecision("Choose CRM vendor")
    \/ \E sessionId \in SessionIds :
          /\ Lookup(sessionId) # Undefined
          /\ Len(Lookup(sessionId).criteria) < MaxIsolated
          /\ AddCriteria(sessionId, "Cost", "d", Rat(1, 2), "benefit")
    \/ \E sessionId \in SessionIds, name \in {"A", "B"} : AddOption(sessionId, name, "d")
    \/ \E sessionId \in SessionIds, optionId \in OptionIdInputs, score \in GapScores :
          EvaluateOption(sessionId, optionId,
                         << [score |-> score, reasoning |-> "because"] >>)
    \/ \E sessionId \in SessionIds : AnalyzeDecision(sessionId, FALSE)

ConfidenceSpec == Init /\ [][ConfidenceNext]_vars

(* ---------------------------- failing store ---------------------------- *)

\* the message of the error database.saveSession rejects with
StoreError == "SQLITE_FULL: database or disk is full"

\* the handler's tail when saveSession throws: sessions.set has run, the row
\* is not written, the catch block builds the response
CommitStoreFails(sessionId, outcome, failedTo) ==
    /\ outcome.save
    /\ sessions' = Put(sessions, sessionId, outcome.session)
    /\ db' = db
    /\ last' = Failure(outcome.response.op, failedTo \o ": " \o StoreError, Undefined)
    /\ UNCHANGED thinkingVars
    /\ UNCHANGED serviceVars
    /\ UNCHANGED << limiterVars, cacheVars, analyzerVars, collabVars >>

StartDecisionStoreFails(context) ==
    /\ validateStartDecision([context |-> context]) = << >>
    /\ \E sessionId \in SessionIds \ (DOMAIN sessions \cup DOMAIN db) :
          CommitStoreFails(sessionId,
                           Outcome(NewSession(sessionId, context),
                                   Success("startDecision", NewSession(sessionId, context)),
                                   TRUE),
                           "Failed to start decision session")
    /\ UNCHANGED firstEvaluated

AddCriteriaStoreFails(sessionId, name, description, weight, type) ==
    /\ Lookup(sessionId) # Undefined
    /\ LET outcome == addCriteria(Lookup(sessionId),
                                  [name |-> name, description |-> description,
                                   weight |-> weight, type |-> type])
       IN  /\ Len(outcome.session.criteria) <= MaxCriteria
           /\ CommitStoreFails(sessionId, outcome, "Failed to add criteria")
    /\ UNCHANGED firstEvaluated

AddOptionStoreFails(sessionId, name, description) ==
    /\ Lookup(sessionId) # Undefined
    /\ LET outcome == addOption(Lookup(sessionId),
                                [name |-> name, description |-> description])
       IN  /\ Len(outcome.session.options) <= MaxOptions
           /\ CommitStoreFails(sessionId, outcome, "Failed to add option")
    /\ UNCHANGED firstEvaluated

EvaluateOptionStoreFails(sessionId, optionId, scores) ==
    /\ Lookup(sessionId) # Undefined
    /\ LET outcome == evaluateOption(Lookup(sessionId),
                                     [optionId |-> optionId, scores |-> scores])
           first == firstEvaluated[sessionId]
       IN  /\ CommitStoreFails(sessionId, outcome, "Failed to evaluate option")
           /\ firstEvaluated' =
                  IF \A i \in 1..Len(first) : first[i] # optionId
                  THEN [firstEvaluated EXCEPT ![sessionId] = Append(@, optionId)]
                  ELSE firstEvaluated

\* a store write fails in one of the four writing handlers
StoreFails ==
    \/ StartDecisionStoreFails("Choose CRM vendor")
    \/ \E sessionId \in SessionIds :
          AddCriteriaStoreFails(sessionId, "Cost", "d", Rat(1, 2), "benefit")
    \/ \E sessionId \in SessionIds, name \in {"A", "B"} :
          AddOptionStoreFails(sessionId, name, "d")
    \/ \E sessionId \in SessionIds, optionId \in OptionIdInputs :
          EvaluateOptionStoreFails(sessionId, optionId,
                                   << [score |-> 9, reasoning |-> "because"] >>)

\* the same calls over a store that takes the write
StoreSucceeds ==
    \/ StartDecision("Choose CRM vendor")
    \/ \E sessionId \in SessionIds :
          AddCriteria(sessionId, "Cost", "d", Rat(1, 2), "benefit")
    \/ \E sessionId \in SessionIds, name \in {"A", "B"} :
          AddOption(sessionId, name, "d")
    \/ \E sessionId \in SessionIds, optionId \in OptionIdInputs :
          EvaluateOption(sessionId, optionId,
                         << [score |-> 9, reasoning |-> "because"] >>)

\* the writing tools over a store whose writes may fail
FailingStoreNext ==
    \/ StoreSucceeds
    \/ StoreFails

FailingStoreSpec == Init /\ [][FailingStoreNext]_vars

(* -------------------------------- cache -------------------------------- *)

\* Map.prototype.get / has / delete / set on the entries in insertion order
IndexOf(entries, key) ==
    IF \E i \in 1..Len(entries) : entries[i].key = key
    THEN CHOOSE i \in 1..Len(entries) : entries[i].key = key
    ELSE 0
MapDelete(entries, key) == SelectSeq(entries, LAMBDA e : e.key # key)
MapSet(entries, entry) ==
    IF IndexOf(entries, entry.key) = 0 THEN Append(entries, entry)
    ELSE [entries EXCEPT ![IndexOf(entries, entry.key)] = entry]

\* Date.now() - entry.timestamp > entry.ttl
EntryExpired(entry, t) == t - entry.timestamp > entry.ttl

\* evictOldest: the first entry in insertion order with the smallest
\* timestamp, if that timestamp is before now; an empty key is not deleted
OldestKey(entries, t) ==
    LET before == SelectSeq(entries, LAMBDA e : e.timestamp < t)
    IN  IF before = << >> THEN Undefined
        ELSE << before[CHOOSE i \in 1..Len(before) :
                          \A j \in 1..Len(before) :
                              \/ before[i].timestamp < before[j].timestamp
                              \/ before[i].timestamp = before[j].timestamp /\ i <= j].key >>
evictOldest(entries, t) ==
    LET oldestKey == OldestKey(entries, t)
    IN  IF oldestKey = Undefined \/ oldestKey = << "" >> THEN entries
        ELSE MapDelete(entries, oldestKey[1])

\* set: evict when full, then store with the ttl given or the default
cacheSet(entries, key, value, ttl, t) ==
    MapSet(IF Len(entries) >= MaxSize THEN evictOldest(entries, t) ELSE entries,
           [key |-> key, value |-> value, timestamp |-> t,
            ttl |-> IF ttl = 0 THEN DefaultTtl ELSE ttl])

\* get: the entries afterwards and the value returned or null
cacheGet(entries, key, t) ==
    LET i == IndexOf(entries, key)
    IN  IF i = 0 THEN [entries |-> entries, result |-> Null]
        ELSE IF EntryExpired(entries[i], t)
        THEN [entries |-> MapDelete(entries, key), result |-> Null]
        ELSE [entries |-> entries, result |-> << entries[i].value >>]

\* has: the entries afterwards and the boolean returned
cacheHas(entries, key, t) ==
    [entries |-> cacheGet(entries, key, t).entries,
     result |-> cacheGet(entries, key, t).result # Null]

\* cleanup: delete every expired entry
cacheCleanup(entries, t) == SelectSeq(entries, LAMBDA e : ~EntryExpired(e, t))

CacheFrame ==
    /\ UNCHANGED << sessions, db, firstEvaluated >>
    /\ UNCHANGED thinkingVars
    /\ UNCHANGED serviceVars
    /\ UNCHANGED limiterVars
    /\ UNCHANGED << analyzerVars, collabVars >>

CacheSet(key, value, ttl) ==
    /\ cache' = cacheSet(cache, key, value, ttl, now)
    /\ unsweptCache' = cacheSet(unsweptCache, key, value, ttl, now)
    /\ last' = Success("set", Undefined)
    /\ CacheFrame

CacheGet(key) ==
    /\ cache' = cacheGet(cache, key, now).entries
    /\ unsweptCache' = cacheGet(unsweptCache, key, now).entries
    /\ last' = Success("get", cacheGet(cache, key, now).result)
    /\ CacheFrame

CacheHas(key) ==
    /\ cache' = cacheHas(cache, key, now).entries
    /\ unsweptCache' = cacheHas(unsweptCache, key, now).entries
    /\ last' = Success("has", cacheHas(cache, key, now).result)
    /\ CacheFrame

CacheDelete(key) ==
    /\ cache' = MapDelete(cache, key)
    /\ unsweptCache' = MapDelete(unsweptCache, key)
    /\ last' = Success("delete", IndexOf(cache, key) # 0)
    /\ CacheFrame

\* the setInterval callback
CacheCleanup ==
    /\ cache' = cacheCleanup(cache, now)
    /\ UNCHANGED << unsweptCache, last >>
    /\ CacheFrame

CacheNext ==
    \/ \E key \in CacheKeys, value \in CacheValues, ttl \in Ttls : CacheSet(key, value, ttl)
    \/ \E key \in CacheKeys : CacheGet(key)
    \/ \E key \in CacheKeys : CacheHas(key)
    \/ \E key \in CacheKeys : CacheDelete(key)
    \/ CacheCleanup
    \/ Tick

CacheSpec == Init /\ [][CacheNext]_vars

(* ---------------------------- collaboration ---------------------------- *)

\* the age from which a lock no longer holds, 300000 ms in the code, scaled
\* down to clock units
AutoUnlockMs == 2
\* the number of events logEvent keeps, 1000 in the code, scaled down
MaxEvents == 1

\* the users, resources and roles of the collaboration runs
Users == {"alice", "bob", "carol"}
LockUsers == {"alice", "bob"}
Resources == {"criteria", "options"}
InvitedRoles == {"editor", "viewer"}

\* logEvent: the event is pushed and the last MaxEvents events are kept
logEvent(log, sessionId, userId, action) ==
    LET pushed == Append(log, [sessionId |-> sessionId, userId |-> userId,
                               action |-> action])
    IN  IF Len(pushed) > MaxEvents
        THEN SubSeq(pushed, Len(pushed) - MaxEvents + 1, Len(pushed))
        ELSE pushed

\* `${sessionId}:${resource}`
lockKey(sessionId, resource) == sessionId \o ":" \o resource

IsFreshNever(lockAge) == FALSE

\* lockAge < 300000
IsFresh(lockAge) == lockAge < AutoUnlockMs

\* lockResource: the locks afterwards and the result
lockResource(map, sessionId, resource, userId, t) ==
    LET key == lockKey(sessionId, resource)
    IN  IF /\ key \in DOMAIN map
           /\ IsFresh(t - map[key].timestamp)
           /\ map[key].userId # userId
        THEN [locks |-> map,
              response |-> Failure("lockResource", "Resource is locked by another user",
                                   Undefined)]
        ELSE [locks |-> Put(map, key, [userId |-> userId, timestamp |-> t,
                                       resource |-> resource]),
              response |-> Success("lockResource", Undefined)]

\* Map.prototype.delete
Delete(map, key) == [k \in DOMAIN map \ {key} |-> map[k]]

\* unlockResource: the locks afterwards and the result
unlockResource(map, sessionId, resource, userId) ==
    LET key == lockKey(sessionId, resource)
    IN  IF key \notin DOMAIN map
        THEN [locks |-> map,
              response |-> Failure("unlockResource", "Resource is not locked", Undefined)]
        ELSE IF map[key].userId # userId
        THEN [locks |-> map,
              response |-> Failure("unlockResource",
                                   "Only the user who locked the resource can unlock it",
                                   Undefined)]
        ELSE [locks |-> Delete(map, key),
              response |-> Success("unlockResource", Undefined)]

\* isResourceLocked: the locks afterwards (a lock older than 300000 ms is
\* deleted) and the result
isResourceLocked(map, sessionId, resource, t) ==
    LET key == lockKey(sessionId, resource)
    IN  IF key \notin DOMAIN map
        THEN [locks |-> map, result |-> [locked |-> FALSE]]
        ELSE IF t - map[key].timestamp > AutoUnlockMs
        THEN [locks |-> Delete(map, key), result |-> [locked |-> FALSE]]
        ELSE [locks |-> map,
              result |-> [locked |-> TRUE, lockedBy |-> map[key].userId,
                          lockedAt |-> map[key].timestamp]]

\* what the collaboration service leaves alone
CollabFrame ==
    /\ UNCHANGED << sessions, db, firstEvaluated >>
    /\ UNCHANGED thinkingVars
    /\ UNCHANGED serviceVars
    /\ UNCHANGED << limiterVars, cacheVars, analyzerVars >>

LockResource(sessionId, resource, userId) ==
    LET outcome == lockResource(locks, sessionId, resource, userId, now)
    IN  /\ locks' = outcome.locks
        /\ last' = outcome.response
        /\ events' = IF outcome.response.success
                     THEN logEvent(events, sessionId, userId, "lock") ELSE events
        /\ UNCHANGED collaborations
        /\ CollabFrame

UnlockResource(sessionId, resource, userId) ==
    LET outcome == unlockResource(locks, sessionId, resource, userId)
    IN  /\ locks' = outcome.locks
        /\ last' = outcome.response
        /\ events' = IF outcome.response.success
                     THEN logEvent(events, sessionId, userId, "unlock") ELSE events
        /\ UNCHANGED collaborations
        /\ CollabFrame

IsResourceLocked(sessionId, resource) ==
    /\ locks' = isResourceLocked(locks, sessionId, resource, now).locks
    /\ last' = Success("isResourceLocked",
                       isResourceLocked(locks, sessionId, resource, now).result)
    /\ UNCHANGED << collaborations, events >>
    /\ CollabFrame

\* two users lock, unlock and query two resources of one session while time
\* passes
LockNext ==
    \/ \E sessionId \in SessionIds, resource \in Resources, userId \in LockUsers :
          LockResource(sessionId, resource, userId)
    \/ \E sessionId \in SessionIds, resource \in Resources, userId \in LockUsers :
          UnlockResource(sessionId, resource, userId)
    \/ \E sessionId \in SessionIds, resource \in Resources :
          IsResourceLocked(sessionId, resource)
    \/ Tick

LockSpec == Init /\ [][LockNext]_vars

\* the collaboration createCollaborativeSession builds
createCollaborativeSession(sessionId, sessionType, ownerId, ownerName) ==
    [sessionId |-> sessionId, sessionType |-> sessionType, ownerId |-> ownerId,
     collaborators |-> << [id |-> ownerId, name |-> ownerName, role |-> "owner"] >>,
     permissions |-> [allowEdit |-> TRUE, allowInvite |-> TRUE, allowExport |-> TRUE],
     status |-> "active"]

\* session.collaborators.find(c => c.id === userId)
FindCollaborator(session, userId) ==
    Find(session.collaborators, LAMBDA c : c.id = userId)

existingCollaboratorNone(session, userId) == Undefined

\* addCollaborator's search for the invited user
existingCollaborator(session, userId) == FindCollaborator(session, userId)

\* session.collaborators.findIndex(c => c.id === userId), from 1, 0 for -1
FindIndex(collaborators, userId) ==
    IF \E i \in 1..Len(collaborators) : collaborators[i].id = userId
    THEN CHOOSE i \in 1..Len(collaborators) :
            /\ collaborators[i].id = userId
            /\ \A j \in 1..(i - 1) : collaborators[j].id # userId
    ELSE 0

\* collaborators.splice(index, 1)
Splice(collaborators, index) ==
    SubSeq(collaborators, 1, index - 1)
        \o SubSeq(collaborators, index + 1, Len(collaborators))

\* the four calls on the collaborations Map: the Map afterwards, the result
\* and the event logged, if any
Refused(map, op, error) ==
    [sessions |-> map, response |-> Failure(op, error, Undefined), logged |-> FALSE]

addCollaborator(map, sessionId, userId, userName, role, invitedBy) ==
    IF sessionId \notin DOMAIN map
    THEN Refused(map, "addCollaborator", "Collaboration session not found")
    ELSE LET session == map[sessionId]
             inviter == FindCollaborator(session, invitedBy)
             collaborator == [id |-> userId, name |-> userName, role |-> role]
         IN  IF existingCollaborator(session, userId) # Undefined
             THEN Refused(map, "addCollaborator", "User is already a collaborator")
             ELSE IF inviter = Undefined
                     \/ (inviter.role # "owner" /\ ~session.permissions.allowInvite)
             THEN Refused(map, "addCollaborator",
                          "Insufficient permissions to invite collaborators")
             ELSE [sessions |-> [map EXCEPT ![sessionId].collaborators =
                                    Append(@, collaborator)],
                   response |-> Success("addCollaborator", collaborator),
                   logged |-> TRUE]

removeCollaborator(map, sessionId, userId, removedBy) ==
    IF sessionId \notin DOMAIN map
    THEN Refused(map, "removeCollaborator", "Collaboration session not found")
    ELSE LET session == map[sessionId]
             remover == FindCollaborator(session, removedBy)
             collaboratorIndex == FindIndex(session.collaborators, userId)
         IN  IF remover = Undefined \/ (remover.role # "owner" /\ removedBy # userId)
             THEN Refused(map, "removeCollaborator",
                          "Insufficient permissions to remove collaborators")
             ELSE IF userId = session.ownerId
             THEN Refused(map, "removeCollaborator", "Cannot remove the session owner")
             ELSE IF collaboratorIndex = 0
             THEN Refused(map, "removeCollaborator", "Collaborator not found")
             ELSE [sessions |-> [map EXCEPT ![sessionId].collaborators =
                                    Splice(@, collaboratorIndex)],
                   response |-> Success("removeCollaborator", Undefined),
                   logged |-> TRUE]

updateCollaboratorRole(map, sessionId, userId, newRole, updatedBy) ==
    IF sessionId \notin DOMAIN map
    THEN Refused(map, "updateCollaboratorRole", "Collaboration session not found")
    ELSE LET session == map[sessionId]
             updater == FindCollaborator(session, updatedBy)
             index == FindIndex(session.collaborators, userId)
         IN  IF updater = Undefined \/ updater.role # "owner"
             THEN Refused(map, "updateCollaboratorRole",
                          "Only the session owner can update roles")
             ELSE IF userId = session.ownerId
             THEN Refused(map, "updateCollaboratorRole", "Cannot change the owner role")
             ELSE IF index = 0
             THEN Refused(map, "updateCollaboratorRole", "Collaborator not found")
             ELSE [sessions |-> [map EXCEPT ![sessionId].collaborators[index].role =
                                    newRole],
                   response |-> Success("updateCollaboratorRole", Undefined),
                   logged |-> TRUE]

\* a call on the collaborations Map as a step: the Map, the response and the
\* event log
Collaborates(outcome, sessionId, userId, action) ==
    /\ collaborations' = outcome.sessions
    /\ last' = outcome.response
    /\ events' = IF outcome.logged THEN logEvent(events, sessionId, userId, action)
                 ELSE events
    /\ UNCHANGED locks
    /\ CollabFrame

CreateCollaborativeSession(sessionId, sessionType, ownerId, ownerName) ==
    LET session == createCollaborativeSession(sessionId, sessionType, ownerId, ownerName)
    IN  Collaborates([sessions |-> Put(collaborations, sessionId, session),
                      response |-> Success("createCollaborativeSession", session),
                      logged |-> TRUE],
                     sessionId, ownerId, "join")

AddCollaborator(sessionId, userId, userName, role, invitedBy) ==
    Collaborates(addCollaborator(collaborations, sessionId, userId, userName, role,
                                 invitedBy),
                 sessionId, userId, "join")

RemoveCollaborator(sessionId, userId, removedBy) ==
    Collaborates(removeCollaborator(collaborations, sessionId, userId, removedBy),
                 sessionId, userId, "leave")

UpdateCollaboratorRole(sessionId, userId, newRole, updatedBy) ==
    Collaborates(updateCollaboratorRole(collaborations, sessionId, userId, newRole,
                                        updatedBy),
                 sessionId, userId, "edit")

\* three users create a collaboration on one session and invite, remove and
\* re-role each other
CollaboratorNext ==
    \/ \E sessionId \in SessionIds, ownerId \in Users :
          CreateCollaborativeSession(sessionId, "decision", ownerId, ownerId)
    \/ \E sessionId \in SessionIds, userId \in Users, role \in InvitedRoles,
          invitedBy \in Users :
          AddCollaborator(sessionId, userId, userId, role, invitedBy)
    \/ \E sessionId \in SessionIds, userId \in Users, removedBy \in Users :
          RemoveCollaborator(sessionId, userId, removedBy)
    \/ \E sessionId \in SessionIds, userId \in Users, newRole \in InvitedRoles,
          updatedBy \in Users :
          UpdateCollaboratorRole(sessionId, userId, newRole, updatedBy)

CollaboratorSpec == Init /\ [][CollaboratorNext]_vars

(* ------------------------ vocabulary of the claims --------------------- *)

Live == DOMAIN sessions
Indices(s) == 1..Len(s)
Returned(op) == last.op = op /\ last.success
OptionName(session, optionId) ==
    (CHOOSE o \in {session.options[i] : i \in Indices(session.options)} :
        o.id = optionId).name

\* e carries the maximum weightedScore of the session's evaluations
IsMaximal(session, e) ==
    \A j \in Indices(session.evaluations) :
        RLe(session.evaluations[j].weightedScore, e.weightedScore)
Maximal(session) ==
    {e \in {session.evaluations[i] : i \in Indices(session.evaluations)} :
        IsMaximal(session, e)}

\* position of an option id in a sequence of option ids
Position(ids, optionId) == CHOOSE i \in Indices(ids) : ids[i] = optionId

\* the session the latest analysis or recommendation is about
Analysed == sessions[last.data.sessionId]

(* ------------------------------- claims -------------------------------- *)

(* C1: every stored evaluation's weightedScore is                          *)
(* sum(score_i * weight_i) / sum(weight_i) over the criteria it was        *)
(* scored against, score_i bound to the i-th criterion, whenever those     *)
(* weights sum to more than 0.  Criteria are only ever appended, so the    *)
(* criteria list at the moment of the evaluation is the prefix of the      *)
(* current list as long as the evaluation's scores.                        *)
C1_WeightedScore ==
    \A id \in Live :
        \A k \in Indices(sessions[id].evaluations) :
            LET e == sessions[id].evaluations[k]
                criteria == sessions[id].criteria
                sumW == RSum([i \in Indices(e.scores) |-> criteria[i].weight])
                sumSW == RSum([i \in Indices(e.scores) |->
                                 RMul(Int2Rat(e.scores[i].score), criteria[i].weight)])
            IN  /\ Len(e.scores) <= Len(criteria)
                /\ \A i \in Indices(e.scores) : e.scores[i].criteriaId = criteria[i].id
                /\ RLt(Zero, sumW) => RMul(e.weightedScore, sumW) = sumSW
                \* weights [0.5, 0.3, 0.2] and scores [8, 6, 4] give 6.6
                /\ calculateWeightedScore(
                       << [score |-> 8], [score |-> 6], [score |-> 4] >>,
                       << [weight |-> Rat(1, 2)], [weight |-> Rat(3, 10)],
                          [weight |-> Rat(1, 5)] >>) = Rat(33, 5)

\* an evaluation over two criteria of different weights whose weighted
\* score is not the plain mean of its scores
C1_Witness ==
    \E id \in Live :
        \E k \in Indices(sessions[id].evaluations) :
            LET e == sessions[id].evaluations[k]
            IN  /\ Len(e.scores) = 2
                /\ sessions[id].criteria[1].weight # sessions[id].criteria[2].weight
                /\ e.scores[1].score # e.scores[2].score
                /\ e.weightedScore # e.overallScore
                /\ Returned("evaluateOption")

(* C2: a session never holds two evaluations of one option, and after a    *)
(* successful evaluate_option the single evaluation stored for that option *)
(* is the one the call returned.                                           *)
C2_OneEvaluationPerOption ==
    \A id \in Live :
        LET evaluations == sessions[id].evaluations
        IN  /\ \A i, j \in Indices(evaluations) :
                  evaluations[i].optionId = evaluations[j].optionId => i = j
            /\ Returned("evaluateOption") =>
                  \E i \in Indices(evaluations) : evaluations[i] = last.data

\* the option evaluated first has just been evaluated again, after the other
\* option, and its new evaluation is the second of the list
C2_Witness ==
    \E id \in Live :
        /\ Returned("evaluateOption")
        /\ Len(firstEvaluated[id]) = 2
        /\ firstEvaluated[id][1] = last.data.optionId
        /\ last.data.timestamp = 2
        /\ last.data.weightedScore # Zero

(* C3: when analyze_decision succeeds, topOption names an option whose     *)
(* evaluation carries the maximum weightedScore of the stored evaluations. *)
C3_TopOptionIsMaximal ==
    Returned("analyzeDecision") =>
        \E e \in Maximal(Analysed) :
            last.data.topOption = OptionName(Analysed, e.optionId)

\* two options of different names and different weighted scores, the
\* better one evaluated last
C3_Witness ==
    /\ Returned("analyzeDecision")
    /\ \E id \in Live :
        LET s == sessions[id]
        IN  /\ Len(s.criteria) = 2 /\ Len(s.options) = 2 /\ Len(s.evaluations) = 2
            /\ s.options[1].name # s.options[2].name
            /\ \E i, j \in Indices(s.evaluations) :
                  /\ s.evaluations[i].timestamp < s.evaluations[j].timestamp
                  /\ RLt(s.evaluations[i].weightedScore, s.evaluations[j].weightedScore)

\* of the evaluations tied at the maximum, the option named by Rank as first
FirstTied(session, Rank(_)) ==
    CHOOSE e \in Maximal(session) : \A f \in Maximal(session) : Rank(e) <= Rank(f)

(* C4 as claimed: on a tie for the maximum weightedScore, topOption is the *)
(* tied option that was evaluated first, also after re-evaluations.        *)
C4_FirstEvaluatedWins ==
    Returned("analyzeDecision") =>
        LET FirstEvaluation(e) == Position(firstEvaluated[Analysed.id], e.optionId)
        IN  Cardinality(Maximal(Analysed)) >= 2 =>
                last.data.topOption =
                    OptionName(Analysed, FirstTied(Analysed, FirstEvaluation).optionId)

(* C4 as amended: on a tie for the maximum weightedScore, topOption is the *)
(* tied option whose stored evaluation is the oldest; re-evaluating an     *)
(* option makes its evaluation the youngest.  Earlier analyze_decision     *)
(* calls do not change the winner.                                         *)
C4_OldestEvaluationWins ==
    Returned("analyzeDecision") =>
        LET Timestamp(e) == e.timestamp
        IN  Cardinality(Maximal(Analysed)) >= 2 =>
                last.data.topOption =
                    OptionName(Analysed, FirstTied(Analysed, Timestamp).optionId)

\* a tie between two options of different names, the one evaluated first
\* having been evaluated again after the other
C4_Witness ==
    /\ Returned("analyzeDecision")
    /\ Cardinality(Maximal(Analysed)) = 2
    /\ Analysed.options[1].name # Analysed.options[2].name
    /\ \E e, f \in Maximal(Analysed) :
          /\ e.timestamp < f.timestamp
          /\ Position(firstEvaluated[Analysed.id], f.optionId)
                < Position(firstEvaluated[Analysed.id], e.optionId)
          /\ RLt(Zero, e.weightedScore)

EvaluationSet(session) == {session.evaluations[i] : i \in Indices(session.evaluations)}

\* the confidence analyze_decision computes for a session
Confidence(session) == calculateConfidence(session.evaluations)

LowConfidence == "Confidence level is below minimum threshold"

C6_RefusedIffBelowSupplied ==
    [][\A id \in Live, minConfidence \in MinConfidences :
          ( /\ Len(sessions[id].evaluations) >= 1
            /\ MakeRecommendation(id, minConfidence) )
          => ( (~last'.success /\ last'.error = LowConfidence)
               <=> SurdLtRat(Confidence(sessions[id]),
                             IF minConfidence = Undefined THEN Rat(3, 10)
                             ELSE minConfidence) )]_vars

\* the gap between the two highest of the weighted scores `after` is larger
\* than in `before`, by a higher top score or by a lower second score, and
\* nothing else differs
GapWidened(before, after) ==
    LET b == SortScoresDesc(before, << >>)
        a == SortScoresDesc(after, << >>)
    IN  /\ Len(b) = Len(a) /\ Len(b) >= 2
        /\ \A i \in 3..Len(b) : a[i] = b[i]
        /\ \/ a[2] = b[2] /\ RLt(b[1], a[1])
           \/ a[1] = b[1] /\ RLt(a[2], b[2])

WeightedScores(session) ==
    [i \in Indices(session.evaluations) |-> session.evaluations[i].weightedScore]

(* C7: a re-evaluation that only widens the gap between the two highest    *)
(* weighted scores of a session does not lower the computed confidence.    *)
C7_ConfidenceMonotoneInGap ==
    [][\A id \in Live :
          GapWidened(WeightedScores(sessions[id]), WeightedScores(sessions'[id]))
          => SurdLe(Confidence(sessions[id]), Confidence(sessions'[id]))]_vars

(* C8: the confidence analyze_decision returns lies in [0, 1], and it is   *)
(* exactly 0.5 when the session holds fewer than 2 evaluations.            *)
C8_ConfidenceRange ==
    Returned("analyzeDecision") =>
        /\ ~SurdLtRat(last.data.confidence, Zero)
        /\ ~RatLtSurd(One, last.data.confidence)
        /\ Len(Analysed.evaluations) < 2 => last.data.confidence = Surd(Rat(1, 2), Zero)

\* an analysis of two evaluations whose confidence is below 0.5
C8_Witness ==
    /\ Returned("analyzeDecision")
    /\ Len(Analysed.evaluations) = 2
    /\ SurdLtRat(last.data.confidence, Rat(1, 2))
    /\ RatLtSurd(Zero, last.data.confidence)

ReferencesResolve(session) ==
    \A i \in Indices(session.evaluations) :
        /\ \E j \in Indices(session.options) :
              session.options[j].id = session.evaluations[i].optionId
        /\ \A k \in Indices(session.evaluations[i].scores) :
              \E j \in Indices(session.criteria) :
                 session.criteria[j].id = session.evaluations[i].scores[k].criteriaId
C34_EvaluationsReferToSession ==
    /\ \A id \in Live : ReferencesResolve(sessions[id])
    /\ \A id \in DOMAIN db : ReferencesResolve(db[id])
    /\ last.error # "Top option not found"

\* an analysis has succeeded on a session whose two options are evaluated
\* against two criteria
C34_Witness ==
    /\ Returned("analyzeDecision")
    /\ Len(Analysed.evaluations) = 2
    /\ \A i \in 1..2 : Len(Analysed.evaluations[i].scores) = 2
    /\ Len(Analysed.criteria) = 2

(* C35: whenever analyze_decision succeeds, every evaluation of the         *)
(* session holds exactly one score for each criterion the session has at   *)
(* that moment: as many scores as criteria, the k-th score carrying the id *)
(* of the k-th criterion.                                                  *)
C35_RankedOverCurrentCriteria ==
    Returned("analyzeDecision") =>
        \A i \in Indices(Analysed.evaluations) :
            /\ Len(Analysed.evaluations[i].scores) = Len(Analysed.criteria)
            /\ \A k \in Indices(Analysed.evaluations[i].scores) :
                  Analysed.evaluations[i].scores[k].criteriaId = Analysed.criteria[k].id

C10_CompletedRejectsMutation ==
    [][\A id \in Live :
          ( /\ sessions[id].status = "completed"
            /\ \/ \E name \in CriteriaNames, description \in Descriptions,
                     weight \in Weights, type \in CriteriaTypes :
                     AddCriteria(id, name, description, weight, type)
               \/ \E name \in OptionNames, description \in Descriptions :
                     AddOption(id, name, description)
               \/ \E optionId \in OptionIdInputs, scores \in ScoreLists :
                     EvaluateOption(id, optionId, scores) )
          => /\ ~last'.success
             /\ sessions'[id] = sessions[id]
             /\ db' = db]_vars

\* an evaluate_option with valid scores for an existing option was refused
\* on a completed session
C10_Witness ==
    /\ last.op = "evaluateOption" /\ ~last.success
    /\ last.error = "Cannot evaluate options in inactive session"
    /\ \E id \in Live :
          /\ sessions[id].status = "completed"
          /\ sessions[id].recommendation # UndefinedString

(* C12: on a session without evaluations analyze_decision and              *)
(* make_recommendation return an error and leave the session, and its      *)
(* stored record, as they were.                                            *)
C12_NoEvaluationsIsAnError ==
    [][\A id \in Live :
          ( /\ Len(sessions[id].evaluations) = 0
            /\ \/ \E includeAlternatives \in BOOLEAN :
                     AnalyzeDecision(id, includeAlternatives)
               \/ \E minConfidence \in MinConfidences :
                     MakeRecommendation(id, minConfidence) )
          => /\ ~last'.success
             /\ sessions'[id] = sessions[id]
             /\ db' = db]_vars

\* make_recommendation was refused on an active session that has criteria
\* and options but no evaluation
C12_Witness ==
    /\ last.op = "makeRecommendation" /\ ~last.success
    /\ last.error = "Failed to analyze decision for recommendation"
    /\ \E id \in Live :
          /\ Len(sessions[id].evaluations) = 0
          /\ Len(sessions[id].options) = 2 /\ Len(sessions[id].criteria) = 1
          /\ sessions[id].status = "active"
          /\ sessions[id].recommendation = UndefinedString

(* C13: analyze_decision, with either value of includeAlternatives, leaves *)
(* the session's criteria, options, evaluations (contents and order),      *)
(* status and recommendation as they were.                                 *)
C13_AnalyzeHasNoSideEffect ==
    [][\A id \in Live, includeAlternatives \in BOOLEAN :
          AnalyzeDecision(id, includeAlternatives)
          => /\ sessions'[id].criteria = sessions[id].criteria
             /\ sessions'[id].options = sessions[id].options
             /\ sessions'[id].evaluations = sessions[id].evaluations
             /\ sessions'[id].status = sessions[id].status
             /\ sessions'[id].recommendation = sessions[id].recommendation]_vars

MutatingOperations ==
    {"startDecision", "addCriteria", "addOption", "evaluateOption", "makeRecommendation"}

(* C14: after each successful start_decision, add_criteria, add_option,    *)
(* evaluate_option and make_recommendation the record held by the session  *)
(* store for the session is the in-memory session as saveSession writes    *)
(* it, status and recommendation included.                                 *)
C14_MutationsArePersisted ==
    (last.success /\ last.op \in MutatingOperations) =>
        \A id \in Live : id \in DOMAIN db /\ db[id] = saveSession(sessions[id])

\* the indices of the scores outside [0, 10], ascending
OutsideRange(scores) ==
    LET Outside(i) == scores[i].score < 0 \/ scores[i].score > 10
    IN  SelectSeq([i \in 1..Len(scores) |-> i], Outside)

(* C11: evaluate_option on an active session with an existing option is    *)
(* rejected exactly when the number of scores differs from the number of   *)
(* criteria or some score lies outside [0, 10], whatever the reasonings;   *)
(* a rejection names the count mismatch and every score out of range, and  *)
(* leaves the session as it was; an accepted call stores the evaluation.   *)
C11_RejectedIffInvalid ==
    \A id \in Live, optionId \in OptionIdInputs, scores \in WideScoreLists :
        LET session == sessions[id]
            outcome == evaluateOption(session, [optionId |-> optionId, scores |-> scores])
            mismatch == Len(scores) # Len(session.criteria)
            outside == OutsideRange(scores)
            violations ==
                (IF mismatch
                 THEN << "Expected " \o ToString(Len(session.criteria)) \o " scores, got "
                         \o ToString(Len(scores)) >>
                 ELSE << >>)
                \o [k \in 1..Len(outside) |->
                       "Score " \o ToString(outside[k]) \o " must be between 0 and 10"]
        IN  ( /\ session.status = "active"
              /\ \E i \in Indices(session.options) : session.options[i].id = optionId )
            => /\ ~outcome.response.success <=> (mismatch \/ Len(outside) > 0)
               /\ ~outcome.response.success =>
                     /\ outcome.response.error = "Validation failed: " \o Join(violations)
                     /\ outcome.session = session
                     /\ ~outcome.save
               /\ outcome.response.success =>
                     /\ outcome.save
                     /\ outcome.session.evaluations[Len(outcome.session.evaluations)]
                            = outcome.response.data

\* a call with a missing score and a score out of range was refused with
\* both violations named, on a session that holds an evaluation accepted
\* with an empty reasoning
C11_Witness ==
    /\ last.op = "evaluateOption" /\ ~last.success
    /\ last.error
          = "Validation failed: Expected 2 scores, got 1, Score 1 must be between 0 and 10"
    /\ \E id \in Live :
          \E k \in Indices(sessions[id].evaluations) :
              \E i \in Indices(sessions[id].evaluations[k].scores) :
                  sessions[id].evaluations[k].scores[i].reasoning = ""

\* the warnings of a validation whose text mentions "not 1.0"
MentionsNotOne(warning) == warning.template = "Criteria weights sum to %s, not 1.0"

LiveThinking == DOMAIN thinkingSessions

\* C15: in every state reached by start_thinking, add_thought, revise_thought,
\* branch_from_thought and conclude_thinking calls, the store's record of each
\* in-memory thinking session holds the session's thoughts, its branch ids,
\* its conclusion and its status.
C15_StoreHoldsThinkingSession ==
    \A sessionId \in LiveThinking :
        /\ sessionId \in DOMAIN thinkingDb
        /\ thinkingDb[sessionId].data.thoughts = thinkingSessions[sessionId].thoughts
        /\ thinkingDb[sessionId].data.branches = thinkingSessions[sessionId].branches
        /\ thinkingDb[sessionId].data.conclusion = thinkingSessions[sessionId].conclusion
        /\ thinkingDb[sessionId].data.status = thinkingSessions[sessionId].status
        /\ thinkingDb[sessionId].status = thinkingSessions[sessionId].status

\* C16: once a thinking session started with maxThoughts = N holds N thoughts
\* (or more), no step changes its thoughts list, and an add_thought on it
\* does not succeed.
AtCap(sessionId) ==
    /\ sessionId \in DOMAIN maxThoughts
    /\ Len(thinkingSessions[sessionId].thoughts) >= maxThoughts[sessionId]
C16_ThinkingCap ==
    [][\A sessionId \in LiveThinking :
          (AtCap(sessionId) /\ sessionId \in DOMAIN thinkingSessions')
              => thinkingSessions'[sessionId].thoughts = thinkingSessions[sessionId].thoughts]_vars

\* C17: conclude_thinking sets the conclusion and status completed, and from
\* then on the session stays completed with its conclusion, and no step
\* changes its thoughts, branches, conclusion or status.
C17_ConcludeIsTerminal ==
    [][\A sessionId \in concluded' :
          /\ sessionId \in DOMAIN thinkingSessions'
                => /\ thinkingSessions'[sessionId].status = "completed"
                   /\ thinkingSessions'[sessionId].conclusion # UndefinedString
          /\ (sessionId \in concluded /\ sessionId \in LiveThinking
                /\ sessionId \in DOMAIN thinkingSessions')
                => thinkingSessions'[sessionId] = thinkingSessions[sessionId]]_vars

\* C18: over every tool call, for a session in memory before and after: no
\* thought is removed or moved; the list grows by at most one thought, and
\* then by the thought a successful add_thought returns, placed at the end;
\* a list of the same length changes only through a successful revise_thought
\* on an active session, in exactly the addressed thought, of which only the
\* content and the revision metadata change; a session that is not active
\* comes out of every call with the same thoughts.
OnlyRevised(before, after) ==
    after = [before EXCEPT !.content = after.content,
                           !.metadata = [@ EXCEPT !.revised = TRUE,
                                                  !.revisionReason = after.metadata.revisionReason]]
ThoughtsStep(sessionId, before, after) ==
    /\ Len(after) \in {Len(before), Len(before) + 1}
    /\ \A i \in 1..Len(before) : after[i].id = before[i].id
    /\ Len(after) = Len(before) + 1
          => /\ last'.op = "addThought" /\ last'.success
             /\ after = Append(before, last'.data)
    /\ (Len(after) = Len(before) /\ after # before)
          => /\ last'.op = "reviseThought" /\ last'.success
             /\ thinkingSessions[sessionId].status = "active"
             /\ \A i \in 1..Len(before) :
                   IF before[i].id = last'.data.id
                   THEN OnlyRevised(before[i], after[i])
                   ELSE after[i] = before[i]
    /\ thinkingSessions[sessionId].status # "active" => after = before
C18_ThoughtsAppendOnly ==
    [][\A sessionId \in LiveThinking :
          sessionId \in DOMAIN thinkingSessions'
             => ThoughtsStep(sessionId, thinkingSessions[sessionId].thoughts,
                             thinkingSessions'[sessionId].thoughts)]_vars

\* a concluded session of two thoughts, the first revised and the second as
\* added, has just refused a revise_thought
C18_Witness ==
    /\ last.op = "reviseThought"
    /\ last.error = "Cannot revise thoughts in inactive session"
    /\ \E sessionId \in LiveThinking :
          LET thoughts == thinkingSessions[sessionId].thoughts
          IN  /\ thinkingSessions[sessionId].status = "completed"
              /\ Len(thoughts) = 2
              /\ thoughts[1].id = << sessionId, 1 >>
              /\ thoughts[1].content = "the cache key is wrong"
              /\ thoughts[1].metadata.revised
              /\ thoughts[2].id = << sessionId, 2 >>
              /\ thoughts[2].content = "the cache is stale"
              /\ ~thoughts[2].metadata.revised

\* C19: a branch_from_thought whose thought id is the id of no thought fails
\* and leaves sessions and branches as they were; and in every reachable
\* state each branch id in a session's branches list is a key of the branches
\* Map whose branch starts from a thought of that same session.
BranchesHaveParents ==
    \A sessionId \in LiveThinking :
        \A i \in 1..Len(thinkingSessions[sessionId].branches) :
            LET branchId == thinkingSessions[sessionId].branches[i]
            IN  /\ branchId \in DOMAIN branches
                /\ branches[branchId].id = branchId
                /\ HasThought(thinkingSessions[sessionId], branches[branchId].fromThoughtId)
MissingParentRejected ==
    \A thoughtId \in ThoughtIdInputs :
        ((\A sessionId \in LiveThinking : ~HasThought(thinkingSessions[sessionId], thoughtId))
            /\ BranchFromThought(thoughtId, "check the key", "User-created branch"))
        => /\ ~last'.success
           /\ last'.error = "Thought not found"
           /\ branches' = branches
           /\ thinkingSessions' = thinkingSessions
C19_BranchesHaveParents ==
    []BranchesHaveParents /\ [][MissingParentRejected]_vars

\* one session lists a stored branch, another session holds thoughts of its
\* own, and a branch_from_thought on an unknown thought id was just refused
C19_Witness ==
    /\ last.op = "branchFromThought"
    /\ last.error = "Thought not found"
    /\ \E sessionId \in LiveThinking, other \in LiveThinking :
          /\ other # sessionId
          /\ thinkingSessions[sessionId].branches # << >>
          /\ thinkingSessions[other].thoughts # << >>
          /\ DOMAIN branches # {}

(* -------------------------- validation claims -------------------------- *)

\* the session the latest validate_logic looked at
Validated == sessions[CHOOSE id \in Live : TRUE]
NotEvaluated(error) == error.template = "Option %s has not been evaluated"
Mismatched(error) == error.template = "Evaluation for option %s has %s scores but %s criteria"

\* C21: in every validate_logic result isValid is true exactly when errors is
\* empty, and consistency is 1 - 0.2 * |errors| - 0.05 * |warnings| when that
\* is positive and 0 otherwise, so it lies in [0, 1].
C21_ValidityAndConsistency ==
    Returned("validateLogic") =>
        LET twentieths == 20 - 4 * Len(last.data.errors) - Len(last.data.warnings)
        IN  /\ last.data.isValid <=> (last.data.errors = << >>)
            /\ last.data.consistency = IF twentieths > 0 THEN Rat(twentieths, 20) ELSE Zero
            /\ RLe(Zero, last.data.consistency)
            /\ RLe(last.data.consistency, One)

\* seven errors and thirteen warnings: 1 - 1.4 - 0.65 is below 0 and reported
\* as 0
C21_Witness ==
    /\ Returned("validateLogic")
    /\ Len(last.data.errors) = 7
    /\ Len(last.data.warnings) = 13
    /\ ~last.data.isValid
    /\ last.data.consistency = Zero

\* C22: validate_logic reports one error for every option without an
\* evaluation and one error for every evaluation whose score count differs
\* from the criteria count of the session now; an evaluation made before an
\* add_criteria is reported until its option is evaluated again.
C22_EvaluationCompleteness ==
    Returned("validateLogic") =>
        LET session == Validated
            Unevaluated(i) ==
                \A k \in Indices(session.evaluations) :
                    session.evaluations[k].optionId # session.options[i].id
            Stale(k) == Len(session.evaluations[k].scores) # Len(session.criteria)
        IN  /\ Len(SelectSeq(last.data.errors, NotEvaluated))
                  = Cardinality({i \in Indices(session.options) : Unevaluated(i)})
            /\ \A i \in Indices(session.options) :
                  Unevaluated(i) =>
                      \E e \in Indices(last.data.errors) :
                          last.data.errors[e] =
                              Message("Option %s has not been evaluated",
                                      << session.options[i].name >>)
            /\ Len(SelectSeq(last.data.errors, Mismatched))
                  = Cardinality({k \in Indices(session.evaluations) : Stale(k)})
            /\ \A k \in Indices(session.evaluations) :
                  Stale(k) <=>
                      \E e \in Indices(last.data.errors) :
                          last.data.errors[e] =
                              Message("Evaluation for option %s has %s scores but %s criteria",
                                      << session.evaluations[k].optionId,
                                         Len(session.evaluations[k].scores),
                                         Len(session.criteria) >>)

\* two options evaluated against one criterion, a second criterion added,
\* the first option evaluated again: the validation reports the second
\* option's evaluation and not the first's
C22_Witness ==
    /\ Returned("validateLogic")
    /\ Len(Validated.criteria) = 2
    /\ Len(Validated.options) = 2
    /\ \E k \in Indices(Validated.evaluations) :
          Validated.evaluations[k].optionId = 1 /\ Len(Validated.evaluations[k].scores) = 2
    /\ \E k \in Indices(Validated.evaluations) :
          Validated.evaluations[k].optionId = 2 /\ Len(Validated.evaluations[k].scores) = 1
    /\ SelectSeq(last.data.errors, Mismatched)
          = << Message("Evaluation for option %s has %s scores but %s criteria", << 2, 1, 2 >>) >>

(* -------------------------- concurrency claims ------------------------- *)

\* the session object a caller's addCriteria is about to mutate
HeldBy(caller, sessionId) ==
    IF calls[caller].pc = "loaded" THEN calls[caller].loaded ELSE sessions[sessionId]
\* the caller's step issues the store's write
Writes(caller) ==
    /\ calls[caller].pc # "saving"
    /\ calls'[caller].pc = "saving"
    /\ calls'[caller].response.success

\* C23: concurrent addCriteria calls on one session id race with
\* last-write-wins: every write replaces the stored session by the writing
\* call's own object, which is the session that call read or held plus its
\* own criterion, whatever the store held at that moment; so a call that
\* read before another call's write overwrites that call's criterion.
C23_LastWriteWins ==
    [][\A id \in DOMAIN db :
          db'[id] # db[id]
             => \E caller \in Callers :
                   /\ Writes(caller)
                   /\ calls'[caller].params.sessionId = id
                   /\ db'[id].criteria = Append(HeldBy(caller, id).criteria,
                                                calls'[caller].response.data)
                   /\ db'[id] = saveSession(sessions'[id])]_vars

\* both callers have their success response, one for Cost and one for Speed,
\* and the stored session holds a single criterion
C23_Witness ==
    /\ \A caller \in Callers :
          /\ calls[caller].pc = "idle"
          /\ "response" \in DOMAIN calls[caller]
          /\ calls[caller].response.success
    /\ calls["c1"].response.data.name = "Cost"
    /\ calls["c2"].response.data.name = "Speed"
    /\ \E id \in DOMAIN db :
          /\ calls["c1"].params.sessionId = id
          /\ calls["c2"].params.sessionId = id
          /\ Len(db[id].criteria) = 1
          /\ db[id].criteria[1].name = "Speed"
          /\ sessions[id].criteria = db[id].criteria

(* -------------------------- rate limit claims -------------------------- *)

\* the identifier has used up its requests in the window that is running
Exceeded(name, identifier) ==
    /\ ~Expired(limiters[name], keyGenerator(name, identifier), now)
    /\ limiters[name][keyGenerator(name, identifier)].count >= MaxRequests

\* C24: a tool call made when its identifier has used up the requests of the
\* running window answers with an error and leaves the sessions and the
\* store as they were.
C24_ExceededIsRejected ==
    [][/\ \A sessionId \in ThinkingIds, thought \in ThoughtTexts :
             (Exceeded("session", sessionId) /\ HandleAddThought(sessionId, thought))
                => /\ ~last'.success
                   /\ thinkingSessions' = thinkingSessions
       /\ \A params \in [problem : Problems] :
             (Exceeded("global", "global") /\ HandleStartThinking(params))
                => /\ ~last'.success
                   /\ thinkingSessions' = thinkingSessions
                   /\ thinkingDb' = thinkingDb]_vars

\* C25: at every moment every isAllowed and getStats call on a limiter gives
\* the result it would give had cleanup never run on the same requests.
Results(stores) ==
    [name \in LimiterNames |->
        [identifier \in ThinkingIds |->
            [isAllowed |-> isAllowed(stores[name], keyGenerator(name, identifier), now).result,
             getStats |-> getStats(stores[name], keyGenerator(name, identifier), now)]]]
C25_LimiterCleanupIsHousekeeping == Results(limiters) = Results(unswept)

\* a sweep has removed an expired entry that the unswept store still holds,
\* another entry is live and used up, and a getStats has just answered
C25_Witness ==
    /\ Returned("getStats")
    /\ last.data # Undefined
    /\ last.data.remaining = 0
    /\ \E name \in LimiterNames :
          /\ DOMAIN limiters[name] # DOMAIN unswept[name]
          /\ \E key \in DOMAIN limiters[name] : limiters[name][key].resetTime > now

\* C31: in every window of every key at most maxRequests calls of isAllowed
\* are allowed; an allowed call is made before the resetTime it reports, which
\* is at most windowMs ahead, and it reports remaining = maxRequests minus
\* the number of calls allowed so far with that resetTime, never a negative
\* number; a denied call leaves the limiter's store, counter and resetTime
\* included, as it was.
C31_FixedWindowBound ==
    /\ [](\A name \in LimiterNames : \A key \in DOMAIN granted[name] :
             granted[name][key].allowed <= MaxRequests)
    /\ [][\A name \in LimiterNames, identifier \in ThinkingIds :
             IsAllowed(name, identifier)
                => LET key == keyGenerator(name, identifier)
                       result == last'.data
                   IN  IF result.allowed
                       THEN /\ now < result.resetTime
                            /\ result.resetTime <= now + WindowMs
                            /\ granted'[name][key].resetTime = result.resetTime
                            /\ result.remaining
                                  = MaxRequests - granted'[name][key].allowed
                            /\ result.remaining >= 0
                       ELSE limiters'[name] = limiters[name]]_vars

\* a call has just been denied in a window that allowed maxRequests calls,
\* after an earlier window of the same key had run out
C31_Witness ==
    /\ Returned("isAllowed")
    /\ ~last.data.allowed
    /\ \E name \in LimiterNames : \E key \in DOMAIN granted[name] :
          /\ granted[name][key].allowed = MaxRequests
          /\ granted[name][key].resetTime = last.data.resetTime
          /\ last.data.resetTime > WindowMs + 1

(* ------------------------- store failure claims ------------------------ *)

\* C32: when the store write fails in start_decision, add_criteria,
\* add_option or evaluate_option, the call answers with an error and every
\* session id leads every later call to the session it led to before the
\* call: no session is created and no criterion, option or evaluation added.
C32_FailedWritesAreAtomic ==
    [][StoreFails
          => /\ ~last'.success
             /\ \A sessionId \in SessionIds : Lookup(sessionId)' = Lookup(sessionId)]_vars

(* ------------------------------ bias claims ---------------------------- *)

\* a number of the interval [0, 1]
InUnitInterval(x) == x # NaN /\ RLe(Zero, x) /\ RLe(x, One)

\* C36: whenever analyze_bias succeeds, overallBiasScore times the number of
\* flagged biases is the sum of their severities, it is 0 when nothing is
\* flagged, and overallBiasScore and confidence are numbers of [0, 1].
C36_BiasScoreAndConfidenceDefined ==
    Returned("analyzeBias") =>
        LET biases == last.data.detectedBiases
        IN  /\ RMul(last.data.overallBiasScore, Int2Rat(Len(biases)))
                 = RSum([i \in 1..Len(biases) |-> biases[i].severity])
            /\ Len(biases) = 0 => last.data.overallBiasScore = Zero
            /\ InUnitInterval(last.data.overallBiasScore)
            /\ InUnitInterval(last.data.confidence)

(* ------------------------- collaboration claims ------------------------ *)

\* the lock another user than userId holds on the resource, less than
\* AutoUnlockMs old
HeldByAnother(sessionId, resource, userId) ==
    /\ lockKey(sessionId, resource) \in DOMAIN locks
    /\ locks[lockKey(sessionId, resource)].userId # userId
    /\ now - locks[lockKey(sessionId, resource)].timestamp < AutoUnlockMs

\* C37: a lockResource by a user while another user holds the resource's
\* lock and that lock is younger than the auto-unlock age fails and leaves
\* every lock, its holder and its timestamp, as it was; an unlockResource
\* succeeds only when its caller holds the lock, which is then gone, and a
\* failed unlockResource leaves every lock as it was.
C37_LockMutualExclusion ==
    [][\A sessionId \in SessionIds, resource \in Resources, userId \in LockUsers :
          /\ (HeldByAnother(sessionId, resource, userId)
                 /\ LockResource(sessionId, resource, userId))
                => /\ ~last'.success
                   /\ locks' = locks
          /\ UnlockResource(sessionId, resource, userId)
                => IF last'.success
                   THEN /\ lockKey(sessionId, resource) \in DOMAIN locks
                        /\ locks[lockKey(sessionId, resource)].userId = userId
                        /\ locks' = Delete(locks, lockKey(sessionId, resource))
                   ELSE locks' = locks]_vars

\* bob has just been refused the lock alice took one clock unit earlier, and
\* alice still holds it
C37_Witness ==
    /\ last.op = "lockResource" /\ ~last.success
    /\ \E sessionId \in SessionIds, resource \in Resources :
          /\ HeldByAnother(sessionId, resource, "bob")
          /\ locks[lockKey(sessionId, resource)].userId = "alice"
          /\ now - locks[lockKey(sessionId, resource)].timestamp = 1

\* C38: at every instant at which isResourceLocked reports a resource as
\* locked by a user, a lockResource on that resource by any other user
\* fails, also when the lock is exactly as old as the auto-unlock age.
C38_QueryAndAcquireAgree ==
    \A sessionId \in SessionIds, resource \in Resources, userId \in LockUsers :
        LET reported == isResourceLocked(locks, sessionId, resource, now).result
        IN  (reported.locked /\ reported.lockedBy # userId)
               => ~lockResource(locks, sessionId, resource, userId, now).response.success

\* the owner is a collaborator with role owner, nobody else has that role and
\* no user id appears twice
OwnerIsUnique(session) ==
    LET collaborators == session.collaborators
    IN  /\ \E i \in 1..Len(collaborators) :
              collaborators[i].id = session.ownerId /\ collaborators[i].role = "owner"
        /\ \A i \in 1..Len(collaborators) :
              collaborators[i].role = "owner" => collaborators[i].id = session.ownerId
        /\ \A i, j \in 1..Len(collaborators) :
              collaborators[i].id = collaborators[j].id => i = j

\* C39: in every collaboration the owner is in the collaborators list with
\* role owner, no other collaborator has role owner and no user id appears
\* twice; a removeCollaborator or updateCollaboratorRole whose target is the
\* owner fails and leaves the collaborations as they were.
C39_OwnerInvariant ==
    /\ [](\A sessionId \in DOMAIN collaborations :
             OwnerIsUnique(collaborations[sessionId]))
    /\ [][\A sessionId \in DOMAIN collaborations, by \in Users, newRole \in InvitedRoles :
             ( \/ RemoveCollaborator(sessionId, collaborations[sessionId].ownerId, by)
               \/ UpdateCollaboratorRole(sessionId, collaborations[sessionId].ownerId,
                                         newRole, by) )
                => /\ ~last'.success
                   /\ collaborations' = collaborations]_vars

\* the owner has just been refused the removal of herself from a
\* collaboration of three
C39_Witness ==
    /\ last.op = "removeCollaborator" /\ ~last.success
    /\ last.error = "Cannot remove the session owner"
    /\ \E sessionId \in DOMAIN collaborations :
          Len(collaborations[sessionId].collaborators) = 3

(* ----------------------------- cache claims ---------------------------- *)

\* C26: at every moment every get and has on the cache gives the value it
\* would give had cleanup never run on the same set, get, has and delete
\* calls.
C26_CacheCleanupIsHousekeeping ==
    \A key \in CacheKeys :
        /\ cacheGet(cache, key, now).result = cacheGet(unsweptCache, key, now).result
        /\ cacheHas(cache, key, now).result = cacheHas(unsweptCache, key, now).result

\* C27: the cache never holds more than maxSize entries.
C27_CacheSizeBounded == Len(cache) <= MaxSize

(* ------------------------- composite claims ---------------------------- *)

\* every option of the session has an evaluation
EveryOptionEvaluated(session) ==
    \A i \in 1..Len(session.options) :
        \E j \in 1..Len(session.evaluations) :
            session.evaluations[j].optionId = session.options[i].id

\* C28: a make_decision response with success = true comes from a complete
\* workflow: every supplied criterion and option is in the session, every
\* option has an evaluation, and analysis and recommendation both gave data.
C28_SuccessMeansComplete ==
    (last.op = "makeDecision" /\ last.success) =>
        /\ Len(last.data.session.criteria) = last.metadata.criteriaCount
        /\ Len(last.data.session.options) = last.metadata.optionsCount
        /\ EveryOptionEvaluated(last.data.session)
        /\ last.data.analysis # Undefined
        /\ last.data.recommendation # Undefined

(* --------------------------- analyzer claims --------------------------- *)

\* C29: validate_logic, analyze_bias and assess_risks called through the
\* server with the id of a stored decision session never answer
\* 'Session not found'.
C29_AnalyzersSeeDecisionSessions ==
    [][\A sessionId \in DOMAIN db :
          (\/ HandleValidateLogic(sessionId)
           \/ HandleAnalyzeBias(sessionId)
           \/ HandleAssessRisks(sessionId)
           \/ HandleValidateLogicConsolidated(sessionId))
          => last'.error # "Session not found"]_vars

(* -------------------------- isolation claims --------------------------- *)

\* the decision session with this id is the same before and after the step,
\* in the tool's Map and in the store
KeptDecision(sessionId) ==
    /\ sessionId \in DOMAIN sessions <=> sessionId \in DOMAIN sessions'
    /\ sessionId \in DOMAIN sessions => sessions'[sessionId] = sessions[sessionId]
    /\ sessionId \in DOMAIN db <=> sessionId \in DOMAIN db'
    /\ sessionId \in DOMAIN db => db'[sessionId] = db[sessionId]

KeptThinking(sessionId) ==
    /\ sessionId \in DOMAIN thinkingSessions <=> sessionId \in DOMAIN thinkingSessions'
    /\ sessionId \in DOMAIN thinkingSessions
          => thinkingSessions'[sessionId] = thinkingSessions[sessionId]
    /\ sessionId \in DOMAIN thinkingDb <=> sessionId \in DOMAIN thinkingDb'
    /\ sessionId \in DOMAIN thinkingDb => thinkingDb'[sessionId] = thinkingDb[sessionId]

\* the session does not hold the thought
NotOwner(sessionId, thoughtId) ==
    \/ sessionId \notin DOMAIN thinkingSessions
    \/ ~HasThought(thinkingSessions[sessionId], thoughtId)

\* C30: a mutating call leaves every session unchanged except the one named
\* by its sessionId, or for revise_thought and branch_from_thought the one
\* that holds the addressed thought.
C30_SessionIsolation ==
    [][/\ \A sessionId \in IsolatedIds :
             MutatesDecision(sessionId) =>
                /\ \A other \in IsolatedIds \ {sessionId} : KeptDecision(other)
                /\ \A other \in ThinkingIds : KeptThinking(other)
       /\ \A sessionId \in ThinkingIds :
             MutatesThinking(sessionId) =>
                /\ \A other \in ThinkingIds \ {sessionId} : KeptThinking(other)
                /\ \A other \in IsolatedIds : KeptDecision(other)
       /\ \A thoughtId \in ThoughtIdInputs :
             MutatesThought(thoughtId) =>
                /\ \A other \in ThinkingIds :
                      NotOwner(other, thoughtId) => KeptThinking(other)
                /\ \A other \in IsolatedIds : KeptDecision(other)]_vars

\* both decision sessions and both thinking sessions exist and differ: s1
\* has a criterion, an option and an evaluation and s2 has none; t1 has a
\* revised thought and a branch and t2 an unrevised thought
C30_Witness ==
    /\ Len(sessions["s1"].evaluations) = 1
    /\ Len(sessions["s1"].criteria) = 1
    /\ sessions["s2"] = NewSession("s2", "Choose CRM vendor")
    /\ db["s2"] = saveSession(NewSession("s2", "Choose CRM vendor"))
    /\ DOMAIN thinkingSessions = ThinkingIds
    /\ \E a, b \in ThinkingIds :
          /\ Len(thinkingSessions[a].thoughts) >= 1
          /\ thinkingSessions[a].thoughts[1].metadata.revised
          /\ Len(thinkingSessions[a].branches) = 1
          /\ Len(thinkingSessions[b].thoughts) >= 1
          /\ ~thinkingSessions[b].thoughts[1].metadata.revised
          /\ thinkingSessions[b].branches = << >>
====
